---- MODULE Spec2Model ----
(***************************************************************************)
(* Unit09 deployment state: the Lifecycle account                          *)
(* (contracts/programs/src/state/lifecycle.rs).                            *)
(*                                                                         *)
(* The account is one record, lc.  Every method of `impl Lifecycle` is an  *)
(* operator from (account, arguments, clock) to [st, err]: the account it  *)
(* leaves behind and the Unit09Error it returns ("Ok" for Ok(())).  One    *)
(* action per method applies it to lc at the current clock value.          *)
(***************************************************************************)
EXTENDS Integers, Sequences, FiniteSets, TLC

(* ----------------------------- bounds ---------------------------------- *)

\* Largest clock.unix_timestamp the environment supplies.
MaxTime == 1
\* note_ref values (the 32 opaque bytes) range over 0..MaxNote.
MaxNote == 1
\* Stored phase bytes range over 0..MaxPhaseByte; 6 and above decode to None.
MaxPhaseByte == 6
\* Public keys range over 0..MaxKey; 0 is Pubkey::default() (all zeros).
MaxKey == 2
\* max_modules_per_repo arguments of initialize range over 0..MaxModulesArg.
MaxModulesArg == 2
\* Role masks passed by callers are the known roles (bits 0..2) with or
\* without one unknown bit, UnknownBit.
UnknownBit == 3
\* u32::MAX, scaled down: the largest value module_count can hold.
U32_MAX == 7
\* u64::MAX, scaled down: the largest value observation_count and the totals
\* can hold.
U64_MAX == 4

(* ----------------------- program constants ----------------------------- *)

CURRENT_SCHEMA_VERSION == 1
\* The PDA bump the runtime derives for the lifecycle account.
LifecycleBump == 255
\* The PDA bump the runtime derives for the config account.
ConfigBump == 254
\* Upper bound of fee_bps.
MAX_FEE_BPS == 10000
\* Compiled ceilings of the Repo account, scaled down.
DEFAULT_MAX_MODULES_PER_REPO == 3
MAX_NAME_LEN == 2
MAX_URL_LEN == 5
MAX_REPO_TAGS_LEN == 1
\* The PDA bump the runtime derives for a repo account.
RepoBump == 252
\* Per-call maxima and the lifetime soft cap of record_observation.
MAX_LOC_PER_OBSERVATION == 1
MAX_FILES_PER_OBSERVATION == 1
SOFT_MAX_OBSERVATIONS_PER_REPO == 2

(* ----------------------- enum LifecyclePhase --------------------------- *)

Phases ==
    {"Bootstrapping", "Operational", "Maintenance", "Frozen", "Migration", "Sunset"}

\* Option::None of from_u8.
NoPhase == "None"

from_u8(value) ==
    CASE value = 0 -> "Bootstrapping"
      [] value = 1 -> "Operational"
      [] value = 2 -> "Maintenance"
      [] value = 3 -> "Frozen"
      [] value = 4 -> "Migration"
      [] value = 5 -> "Sunset"
      [] OTHER -> NoPhase

as_u8(phase) ==
    CASE phase = "Bootstrapping" -> 0
      [] phase = "Operational" -> 1
      [] phase = "Maintenance" -> 2
      [] phase = "Frozen" -> 3
      [] phase = "Migration" -> 4
      [] phase = "Sunset" -> 5

is_write_restricted_NoMigration(phase) ==
    phase \in {"Frozen", "Sunset"}

is_write_restricted(phase) ==
    phase \in {"Frozen", "Migration", "Sunset"}

is_read_only_WithMigration(phase) ==
    phase \in {"Frozen", "Migration", "Sunset"}

is_read_only(phase) ==
    phase \in {"Frozen", "Sunset"}

(* ------------------------- Unit09Error kinds --------------------------- *)

Ok == "Ok"
InvalidLifecycleState == "InvalidLifecycleState"
MigrationRequired == "MigrationRequired"
MigrationAlreadyApplied == "MigrationAlreadyApplied"
InvalidAdmin == "InvalidAdmin"
InvalidFeeBps == "InvalidFeeBps"
ValueOutOfRange == "ValueOutOfRange"
InvalidAuthority == "InvalidAuthority"
StringEmpty == "StringEmpty"
StringTooLong == "StringTooLong"
InvalidUrl == "InvalidUrl"
CounterOverflow == "CounterOverflow"
RepoModuleLimitReached == "RepoModuleLimitReached"
ObservationDataTooLarge == "ObservationDataTooLarge"
RepoObservationLimitReached == "RepoObservationLimitReached"
AuthorityRoleNotAllowed == "AuthorityRoleNotAllowed"
\* Failure of the `init` account constraint: the PDA already exists.
AccountAlreadyInUse == "AccountAlreadyInUse"

\* Result<()> of a method together with the account it leaves behind.
Return(self, e) == [st |-> self, err |-> e]

(* ------------------------- impl Lifecycle ------------------------------ *)

LifecycleInit(bump, clock, note_ref) ==
    [ phase |-> as_u8("Bootstrapping"),
      global_freeze |-> FALSE,
      migration_required |-> FALSE,
      migration_in_progress |-> FALSE,
      phase_changed_at |-> clock,
      migration_state_changed_at |-> 0,
      note_ref |-> note_ref,
      created_at |-> clock,
      updated_at |-> clock,
      schema_version |-> CURRENT_SCHEMA_VERSION,
      bump |-> bump ]

set_phase_AlwaysStamp(self, new_phase, clock) ==
    IF from_u8(self.phase) = NoPhase
    THEN Return(self, InvalidLifecycleState)
    ELSE Return([self EXCEPT !.phase = as_u8(new_phase),
                             !.phase_changed_at = clock,
                             !.updated_at = clock], Ok)

set_phase_NoLeaveSunset(self, new_phase, clock) ==
    IF from_u8(self.phase) = NoPhase
    THEN Return(self, InvalidLifecycleState)
    ELSE IF from_u8(self.phase) = new_phase \/ from_u8(self.phase) = "Sunset"
    THEN Return(self, Ok)
    ELSE Return([self EXCEPT !.phase = as_u8(new_phase),
                             !.phase_changed_at = clock,
                             !.updated_at = clock], Ok)

set_phase(self, new_phase, clock) ==
    LET old_phase == from_u8(self.phase) IN
    IF old_phase = NoPhase
    THEN Return(self, InvalidLifecycleState)
    ELSE IF old_phase = new_phase
    THEN Return(self, Ok)
    ELSE Return([self EXCEPT !.phase = as_u8(new_phase),
                             !.phase_changed_at = clock,
                             !.updated_at = clock], Ok)

set_global_freeze_NeverLifts(self, freeze, clock) ==
    Return([self EXCEPT !.global_freeze = @ \/ freeze,
                        !.updated_at = clock], Ok)

set_global_freeze_AlsoFreezesPhase(self, freeze, clock) ==
    Return([self EXCEPT !.global_freeze = freeze,
                        !.phase = IF freeze THEN as_u8("Frozen") ELSE @,
                        !.phase_changed_at = IF freeze THEN clock ELSE @,
                        !.updated_at = clock], Ok)

set_global_freeze(self, freeze, clock) ==
    Return([self EXCEPT !.global_freeze = freeze,
                        !.updated_at = clock], Ok)

require_migration_ResetProgress(self, clock) ==
    Return([self EXCEPT !.migration_required = TRUE,
                        !.migration_in_progress = FALSE,
                        !.migration_state_changed_at = clock,
                        !.updated_at = clock], Ok)

require_migration(self, clock) ==
    Return([self EXCEPT !.migration_required = TRUE,
                        !.migration_state_changed_at = clock,
                        !.updated_at = clock], Ok)

start_migration_NoRequiredCheck(self, clock) ==
    IF self.migration_in_progress
    THEN Return(self, MigrationAlreadyApplied)
    ELSE Return([self EXCEPT !.migration_in_progress = TRUE,
                             !.phase = as_u8("Migration"),
                             !.phase_changed_at = clock,
                             !.migration_state_changed_at = clock,
                             !.updated_at = clock], Ok)

start_migration_NoProgressCheck(self, clock) ==
    IF ~self.migration_required
    THEN Return(self, MigrationRequired)
    ELSE Return([self EXCEPT !.migration_in_progress = TRUE,
                             !.phase = as_u8("Migration"),
                             !.phase_changed_at = clock,
                             !.migration_state_changed_at = clock,
                             !.updated_at = clock], Ok)

start_migration_ProgressCheckFirst(self, clock) ==
    IF self.migration_in_progress
    THEN Return(self, MigrationAlreadyApplied)
    ELSE IF ~self.migration_required
    THEN Return(self, MigrationRequired)
    ELSE Return([self EXCEPT !.migration_in_progress = TRUE,
                             !.phase = as_u8("Migration"),
                             !.phase_changed_at = clock,
                             !.migration_state_changed_at = clock,
                             !.updated_at = clock], Ok)

start_migration(self, clock) ==
    IF ~self.migration_required
    THEN Return(self, MigrationRequired)
    ELSE IF self.migration_in_progress
    THEN Return(self, MigrationAlreadyApplied)
    ELSE Return([self EXCEPT !.migration_in_progress = TRUE,
                             !.phase = as_u8("Migration"),
                             !.phase_changed_at = clock,
                             !.migration_state_changed_at = clock,
                             !.updated_at = clock], Ok)

complete_migration_NoProgressCheck(self, new_phase, clock) ==
    Return([self EXCEPT !.migration_required = FALSE,
                        !.migration_in_progress = FALSE,
                        !.phase = as_u8(new_phase),
                        !.phase_changed_at = clock,
                        !.migration_state_changed_at = clock,
                        !.updated_at = clock], Ok)

complete_migration_KeepRequired(self, new_phase, clock) ==
    IF ~self.migration_in_progress
    THEN Return(self, MigrationRequired)
    ELSE Return([self EXCEPT !.migration_in_progress = FALSE,
                             !.phase = as_u8(new_phase),
                             !.phase_changed_at = clock,
                             !.migration_state_changed_at = clock,
                             !.updated_at = clock], Ok)

complete_migration(self, new_phase, clock) ==
    IF ~self.migration_in_progress
    THEN Return(self, MigrationRequired)
    ELSE Return([self EXCEPT !.migration_required = FALSE,
                             !.migration_in_progress = FALSE,
                             !.phase = as_u8(new_phase),
                             !.phase_changed_at = clock,
                             !.migration_state_changed_at = clock,
                             !.updated_at = clock], Ok)

update_note_ref(self, note_ref, clock) ==
    Return([self EXCEPT !.note_ref = note_ref,
                        !.updated_at = clock], Ok)

assert_writes_allowed_NoFreezeCheck(self) ==
    LET phase == from_u8(self.phase) IN
    IF phase = NoPhase THEN InvalidLifecycleState
    ELSE IF is_write_restricted(phase) THEN InvalidLifecycleState
    ELSE IF self.migration_required /\ ~self.migration_in_progress
    THEN MigrationRequired
    ELSE Ok

assert_writes_allowed_NoMigrationCheck(self) ==
    LET phase == from_u8(self.phase) IN
    IF phase = NoPhase THEN InvalidLifecycleState
    ELSE IF self.global_freeze THEN InvalidLifecycleState
    ELSE IF is_write_restricted(phase) THEN InvalidLifecycleState
    ELSE Ok

\* &self: the guard returns only an error kind.
assert_writes_allowed(self) ==
    LET phase == from_u8(self.phase) IN
    IF phase = NoPhase THEN InvalidLifecycleState
    ELSE IF self.global_freeze THEN InvalidLifecycleState
    ELSE IF is_write_restricted(phase) THEN InvalidLifecycleState
    ELSE IF self.migration_required /\ ~self.migration_in_progress
    THEN MigrationRequired
    ELSE Ok

\* Result<bool>: err is the error kind, val the boolean of Ok(val).
is_effectively_read_only(self) ==
    LET phase == from_u8(self.phase) IN
    IF phase = NoPhase
    THEN [err |-> InvalidLifecycleState, val |-> FALSE]
    ELSE [err |-> Ok, val |-> self.global_freeze \/ is_read_only(phase)]

NoteRefs == 0..MaxNote

(* ---------------------- mod role_flags, Authority ---------------------- *)

\* A u64 bitmask is the set of the positions of its 1 bits.
WordBits == 0..63

BitOr(a, b) == a \cup b
BitAnd(a, b) == a \cap b
BitNot(a) == WordBits \ a

ADMIN == {0}
MAINTAINER == {1}
OBSERVER == {2}
ANY == BitOr(BitOr(ADMIN, MAINTAINER), OBSERVER)

\* Pubkey::default()
DefaultPubkey == 0

\* An Authority account the runtime has not created yet: all bytes zero.
ZeroAuthority ==
    [ authority |-> DefaultPubkey,
      roles |-> {},
      is_global |-> FALSE,
      resource_scope |-> DefaultPubkey,
      created_at |-> 0,
      updated_at |-> 0,
      schema_version |-> 0,
      bump |-> 0 ]

\* The PDA bump the runtime derives for the authority account.
AuthorityBump == 253

validate_roles(roles) ==
    LET known_mask == ANY IN
    IF BitAnd(roles, BitNot(known_mask)) # {}
    THEN AuthorityRoleNotAllowed
    ELSE Ok

AuthorityInit(self, authority, roles, is_global, resource_scope, bump, clock) ==
    IF validate_roles(roles) # Ok
    THEN Return(self, validate_roles(roles))
    ELSE Return([ authority |-> authority,
                  roles |-> roles,
                  is_global |-> is_global,
                  resource_scope |-> IF is_global THEN DefaultPubkey
                                     ELSE resource_scope,
                  created_at |-> clock,
                  updated_at |-> clock,
                  schema_version |-> 1,
                  bump |-> bump ], Ok)

grant_roles_NoValidation(self, roles_to_grant, clock) ==
    Return([self EXCEPT !.roles = BitOr(@, roles_to_grant),
                        !.updated_at = clock], Ok)

grant_roles_ValidateAfter(self, roles_to_grant, clock) ==
    Return([self EXCEPT !.roles = BitAnd(BitOr(@, roles_to_grant), ANY),
                        !.updated_at = clock], validate_roles(roles_to_grant))

grant_roles(self, roles_to_grant, clock) ==
    IF validate_roles(roles_to_grant) # Ok
    THEN Return(self, validate_roles(roles_to_grant))
    ELSE Return([self EXCEPT !.roles = BitOr(@, roles_to_grant),
                             !.updated_at = clock], Ok)

revoke_roles_Toggle(self, roles_to_revoke, clock) ==
    Return([self EXCEPT !.roles = BitAnd(BitOr(BitAnd(@, BitNot(roles_to_revoke)),
                                               BitAnd(roles_to_revoke, BitNot(@))), ANY),
                        !.updated_at = clock], Ok)

revoke_roles(self, roles_to_revoke, clock) ==
    Return([self EXCEPT !.roles = BitAnd(@, BitNot(roles_to_revoke)),
                        !.updated_at = clock], Ok)

set_roles(self, new_roles, clock) ==
    IF validate_roles(new_roles) # Ok
    THEN Return(self, validate_roles(new_roles))
    ELSE Return([self EXCEPT !.roles = new_roles,
                             !.updated_at = clock], Ok)

clear_roles(self, clock) ==
    Return([self EXCEPT !.roles = {},
                        !.updated_at = clock], Ok)

set_scope_KeepId(self, is_global, resource_scope, clock) ==
    Return([self EXCEPT !.is_global = is_global,
                        !.resource_scope = resource_scope,
                        !.updated_at = clock], Ok)

set_scope(self, is_global, resource_scope, clock) ==
    Return([self EXCEPT !.is_global = is_global,
                        !.resource_scope = IF is_global THEN DefaultPubkey
                                           ELSE resource_scope,
                        !.updated_at = clock], Ok)

has_any_role_EmptyMaskPasses(self, roles_mask) ==
    roles_mask = {} \/ BitAnd(self.roles, roles_mask) # {}

has_any_role(self, roles_mask) ==
    BitAnd(self.roles, roles_mask) # {}

has_all_roles(self, roles_mask) ==
    BitAnd(self.roles, roles_mask) = roles_mask

matches_resource(self, target) ==
    IF self.is_global THEN TRUE ELSE self.resource_scope = target

assert_allowed_for_resource_ScopeFirst(self, signer, required_roles, resource) ==
    IF ~matches_resource(self, resource) THEN AuthorityRoleNotAllowed
    ELSE IF signer # self.authority THEN InvalidAuthority
    ELSE IF ~has_any_role(self, required_roles) THEN AuthorityRoleNotAllowed
    ELSE Ok

\* &self: the check returns only an error kind.
assert_allowed_for_resource(self, signer, required_roles, resource) ==
    IF signer # self.authority THEN InvalidAuthority
    ELSE IF ~matches_resource(self, resource) THEN AuthorityRoleNotAllowed
    ELSE IF ~has_any_role(self, required_roles) THEN AuthorityRoleNotAllowed
    ELSE Ok

(* ------------------------------ Repo ---------------------------------- *)

\* A String is the sequence of its bytes.
Contains(str, pat) ==
    \E i \in 1..(Len(str) - Len(pat) + 1) :
        SubSeq(str, i, i + Len(pat) - 1) = pat

\* Option::None of checked_add / checked_sub.
NoValue == -1

checked_add(a, b, max) == IF a + b > max THEN NoValue ELSE a + b

checked_sub(a, b) == IF a - b < 0 THEN NoValue ELSE a - b

\* A Repo account the runtime has not created yet: all bytes zero.
ZeroRepo ==
    [ repo_key |-> DefaultPubkey,
      authority |-> DefaultPubkey,
      name |-> <<>>,
      url |-> <<>>,
      tags |-> <<>>,
      is_active |-> FALSE,
      allow_observation |-> FALSE,
      module_count |-> 0,
      observation_count |-> 0,
      total_lines_of_code |-> 0,
      total_files_processed |-> 0,
      created_at |-> 0,
      updated_at |-> 0,
      schema_version |-> 0,
      bump |-> 0 ]

validate_name(name) ==
    IF Len(name) = 0 THEN StringEmpty
    ELSE IF Len(name) > MAX_NAME_LEN THEN StringTooLong
    ELSE Ok

\* Without the test for a dot.
validate_url_SchemeOnly(url) ==
    IF Len(url) = 0 THEN StringEmpty
    ELSE IF Len(url) > MAX_URL_LEN THEN StringTooLong
    ELSE IF ~Contains(url, <<":", "/", "/">>) THEN InvalidUrl
    ELSE Ok

validate_url(url) ==
    IF Len(url) = 0 THEN StringEmpty
    ELSE IF Len(url) > MAX_URL_LEN THEN StringTooLong
    ELSE IF ~Contains(url, <<":", "/", "/">>) \/ ~Contains(url, <<".">>)
    THEN InvalidUrl
    ELSE Ok

validate_tags(tags) ==
    IF Len(tags) > MAX_REPO_TAGS_LEN THEN StringTooLong ELSE Ok

RepoInit(self, repo_key, authority, name, url, tags, allow_observation, bump, clock) ==
    IF validate_name(name) # Ok THEN Return(self, validate_name(name))
    ELSE IF validate_url(url) # Ok THEN Return(self, validate_url(url))
    ELSE IF validate_tags(tags) # Ok THEN Return(self, validate_tags(tags))
    ELSE Return([ repo_key |-> repo_key,
                  authority |-> authority,
                  name |-> name,
                  url |-> url,
                  tags |-> tags,
                  is_active |-> TRUE,
                  allow_observation |-> allow_observation,
                  module_count |-> 0,
                  observation_count |-> 0,
                  total_lines_of_code |-> 0,
                  total_files_processed |-> 0,
                  created_at |-> clock,
                  updated_at |-> clock,
                  schema_version |-> CURRENT_SCHEMA_VERSION,
                  bump |-> bump ], Ok)

increment_module_count_LimitOffByOne(self) ==
    LET new_value == checked_add(self.module_count, 1, U32_MAX) IN
    IF new_value = NoValue THEN Return(self, CounterOverflow)
    ELSE IF new_value > DEFAULT_MAX_MODULES_PER_REPO + 1
    THEN Return(self, RepoModuleLimitReached)
    ELSE Return([self EXCEPT !.module_count = new_value], Ok)

increment_module_count(self) ==
    LET new_value == checked_add(self.module_count, 1, U32_MAX) IN
    IF new_value = NoValue THEN Return(self, CounterOverflow)
    ELSE IF new_value > DEFAULT_MAX_MODULES_PER_REPO
    THEN Return(self, RepoModuleLimitReached)
    ELSE Return([self EXCEPT !.module_count = new_value], Ok)

\* Option<T>.
None == [some |-> FALSE]
Some(value) == [some |-> TRUE, val |-> value]

\* updated_at stamped only when some argument is present.
apply_update_StampOnChange(self, maybe_name, maybe_url, maybe_tags, maybe_is_active, maybe_allow_observation, clock) ==
    IF maybe_name.some /\ validate_name(maybe_name.val) # Ok
    THEN Return(self, validate_name(maybe_name.val))
    ELSE IF maybe_url.some /\ validate_url(maybe_url.val) # Ok
    THEN Return(self, validate_url(maybe_url.val))
    ELSE IF maybe_tags.some /\ validate_tags(maybe_tags.val) # Ok
    THEN Return(self, validate_tags(maybe_tags.val))
    ELSE Return(
        [self EXCEPT
            !.name = IF maybe_name.some THEN maybe_name.val ELSE @,
            !.url = IF maybe_url.some THEN maybe_url.val ELSE @,
            !.tags = IF maybe_tags.some THEN maybe_tags.val ELSE @,
            !.is_active = IF maybe_is_active.some THEN maybe_is_active.val ELSE @,
            !.allow_observation =
                IF maybe_allow_observation.some
                THEN maybe_allow_observation.val ELSE @,
            !.updated_at =
                IF \/ maybe_name.some \/ maybe_url.some \/ maybe_tags.some
                   \/ maybe_is_active.some \/ maybe_allow_observation.some
                THEN clock ELSE @], Ok)

\* maybe_is_active applied as "activate" whatever its value.
apply_update_AlwaysActivates(self, maybe_name, maybe_url, maybe_tags, maybe_is_active, maybe_allow_observation, clock) ==
    IF maybe_name.some /\ validate_name(maybe_name.val) # Ok
    THEN Return(self, validate_name(maybe_name.val))
    ELSE IF maybe_url.some /\ validate_url(maybe_url.val) # Ok
    THEN Return(self, validate_url(maybe_url.val))
    ELSE IF maybe_tags.some /\ validate_tags(maybe_tags.val) # Ok
    THEN Return(self, validate_tags(maybe_tags.val))
    ELSE Return(
        [self EXCEPT
            !.name = IF maybe_name.some THEN maybe_name.val ELSE @,
            !.url = IF maybe_url.some THEN maybe_url.val ELSE @,
            !.tags = IF maybe_tags.some THEN maybe_tags.val ELSE @,
            !.is_active = IF maybe_is_active.some THEN TRUE ELSE @,
            !.allow_observation =
                IF maybe_allow_observation.some
                THEN maybe_allow_observation.val ELSE @,
            !.updated_at = clock], Ok)

\* Each present string is validated and assigned in turn (name, url, tags):
\* an Err from a later validation returns with the earlier assignments made.
apply_update(self, maybe_name, maybe_url, maybe_tags, maybe_is_active, maybe_allow_observation, clock) ==
    IF maybe_name.some /\ validate_name(maybe_name.val) # Ok
    THEN Return(self, validate_name(maybe_name.val))
    ELSE
    LET named == IF maybe_name.some
                 THEN [self EXCEPT !.name = maybe_name.val] ELSE self IN
    IF maybe_url.some /\ validate_url(maybe_url.val) # Ok
    THEN Return(named, validate_url(maybe_url.val))
    ELSE
    LET located == IF maybe_url.some
                   THEN [named EXCEPT !.url = maybe_url.val] ELSE named IN
    IF maybe_tags.some /\ validate_tags(maybe_tags.val) # Ok
    THEN Return(located, validate_tags(maybe_tags.val))
    ELSE
    LET tagged == IF maybe_tags.some
                  THEN [located EXCEPT !.tags = maybe_tags.val] ELSE located IN
    Return(
        [tagged EXCEPT
            !.is_active = IF maybe_is_active.some THEN maybe_is_active.val ELSE @,
            !.allow_observation =
                IF maybe_allow_observation.some
                THEN maybe_allow_observation.val ELSE @,
            !.updated_at = clock], Ok)

\* wrapping_sub in place of checked_sub.
decrement_module_count_Wrapping(self) ==
    Return([self EXCEPT !.module_count =
                IF self.module_count = 0 THEN U32_MAX ELSE self.module_count - 1], Ok)

decrement_module_count(self) ==
    LET new_value == checked_sub(self.module_count, 1) IN
    IF new_value = NoValue THEN Return(self, CounterOverflow)
    ELSE Return([self EXCEPT !.module_count = new_value], Ok)

\* The observation counter is advanced only after both bounds checks passed;
\* here it is advanced first.
record_observation_CountBeforeBounds(self, lines_of_code, files_processed) ==
    LET counted == [self EXCEPT !.observation_count =
                        IF self.observation_count < U64_MAX
                        THEN self.observation_count + 1
                        ELSE self.observation_count] IN
    IF lines_of_code > MAX_LOC_PER_OBSERVATION
    THEN Return(counted, ObservationDataTooLarge)
    ELSE IF files_processed > MAX_FILES_PER_OBSERVATION
    THEN Return(counted, ObservationDataTooLarge)
    ELSE Return(counted, Ok)

\* wrapping_add in place of checked_add on observation_count.
record_observation_WrappingCount(self, lines_of_code, files_processed) ==
    IF lines_of_code > MAX_LOC_PER_OBSERVATION
    THEN Return(self, ObservationDataTooLarge)
    ELSE IF files_processed > MAX_FILES_PER_OBSERVATION
    THEN Return(self, ObservationDataTooLarge)
    ELSE
    LET count == (self.observation_count + 1) % (U64_MAX + 1)
        counted == [self EXCEPT !.observation_count = count] IN
    IF count > SOFT_MAX_OBSERVATIONS_PER_REPO
    THEN Return(counted, RepoObservationLimitReached)
    ELSE Return([counted EXCEPT
                    !.total_lines_of_code = @ + lines_of_code,
                    !.total_files_processed = @ + files_processed], Ok)

\* self.observation_count is assigned before the soft cap is compared, and
\* total_lines_of_code before total_files_processed is added: an Err returned
\* after an assignment leaves that assignment in the account.
record_observation(self, lines_of_code, files_processed) ==
    IF lines_of_code > MAX_LOC_PER_OBSERVATION
    THEN Return(self, ObservationDataTooLarge)
    ELSE IF files_processed > MAX_FILES_PER_OBSERVATION
    THEN Return(self, ObservationDataTooLarge)
    ELSE
    LET count == checked_add(self.observation_count, 1, U64_MAX) IN
    IF count = NoValue THEN Return(self, CounterOverflow)
    ELSE
    LET counted == [self EXCEPT !.observation_count = count] IN
    IF count > SOFT_MAX_OBSERVATIONS_PER_REPO
    THEN Return(counted, RepoObservationLimitReached)
    ELSE
    LET lines == checked_add(self.total_lines_of_code, lines_of_code, U64_MAX) IN
    IF lines = NoValue THEN Return(counted, CounterOverflow)
    ELSE
    LET withLines == [counted EXCEPT !.total_lines_of_code = lines]
        files == checked_add(self.total_files_processed, files_processed, U64_MAX) IN
    IF files = NoValue THEN Return(withLines, CounterOverflow)
    ELSE Return([withLines EXCEPT !.total_files_processed = files], Ok)

(* ----------------------- instruction initialize ------------------------ *)

\* An account the runtime has not created yet: all bytes zero.
ZeroLifecycle ==
    [ phase |-> 0,
      global_freeze |-> FALSE,
      migration_required |-> FALSE,
      migration_in_progress |-> FALSE,
      phase_changed_at |-> 0,
      migration_state_changed_at |-> 0,
      note_ref |-> 0,
      created_at |-> 0,
      updated_at |-> 0,
      schema_version |-> 0,
      bump |-> 0 ]

ZeroConfig ==
    [ admin |-> 0,
      fee_bps |-> 0,
      max_modules_per_repo |-> 0,
      policy_ref |-> 0,
      is_active |-> FALSE,
      created_at |-> 0,
      updated_at |-> 0,
      schema_version |-> 0,
      bump |-> 0 ]

\* Config::init: the singleton holding admin, fee bound, per-resource
\* ceiling, policy reference and active flag.
ConfigInit(admin, fee_bps, max_modules_per_repo, policy_ref, bump, clock) ==
    [ admin |-> admin,
      fee_bps |-> fee_bps,
      max_modules_per_repo |-> max_modules_per_repo,
      policy_ref |-> policy_ref,
      is_active |-> TRUE,
      created_at |-> clock,
      updated_at |-> clock,
      schema_version |-> CURRENT_SCHEMA_VERSION,
      bump |-> bump ]

InitializeArgs ==
    [ admin : 1..MaxKey,
      fee_bps : {MAX_FEE_BPS, MAX_FEE_BPS + 1},
      max_modules_per_repo : 0..MaxModulesArg,
      policy_ref : {0},
      lifecycle_note_ref : NoteRefs ]

\* The outcome of the instruction: the error kind and the accounts it
\* commits (on an error the runtime commits nothing).
InitializeResult(e, exists, lifecycle, cfg) ==
    [err |-> e, exists |-> exists, lifecycle |-> lifecycle, config |-> cfg]

initialize_NoInitConstraint(exists, lifecycle, cfg, admin_key, args, clock) ==
    IF admin_key # args.admin
    THEN InitializeResult(InvalidAdmin, exists, lifecycle, cfg)
    ELSE IF args.fee_bps > MAX_FEE_BPS
    THEN InitializeResult(InvalidFeeBps, exists, lifecycle, cfg)
    ELSE IF args.max_modules_per_repo = 0
    THEN InitializeResult(ValueOutOfRange, exists, lifecycle, cfg)
    ELSE InitializeResult(Ok, TRUE,
            LifecycleInit(LifecycleBump, clock, args.lifecycle_note_ref),
            ConfigInit(args.admin, args.fee_bps, args.max_modules_per_repo,
                       args.policy_ref, ConfigBump, clock))

\* #[derive(Accounts)] Initialize (the `init` constraints run first) and
\* handle().  The bumps of the three PDAs are always present in ctx.bumps.
initialize(exists, lifecycle, cfg, admin_key, args, clock) ==
    IF exists
    THEN InitializeResult(AccountAlreadyInUse, exists, lifecycle, cfg)
    ELSE IF admin_key # args.admin
    THEN InitializeResult(InvalidAdmin, exists, lifecycle, cfg)
    ELSE IF args.fee_bps > MAX_FEE_BPS
    THEN InitializeResult(InvalidFeeBps, exists, lifecycle, cfg)
    ELSE IF args.max_modules_per_repo = 0
    THEN InitializeResult(ValueOutOfRange, exists, lifecycle, cfg)
    ELSE InitializeResult(Ok, TRUE,
            LifecycleInit(LifecycleBump, clock, args.lifecycle_note_ref),
            ConfigInit(args.admin, args.fee_bps, args.max_modules_per_repo,
                       args.policy_ref, ConfigBump, clock))

(* ------------------- Fork, GlobalMetadata, Config ---------------------- *)

\* str::starts_with.
StartsWith(str, prefix) ==
    /\ Len(str) >= Len(prefix)
    /\ SubSeq(str, 1, Len(prefix)) = prefix

Http == <<"h", "t", "t", "p", ":", "/", "/">>
Https == <<"h", "t", "t", "p", "s", ":", "/", "/">>
Ipfs == <<"i", "p", "f", "s", ":", "/", "/">>
Ar == <<"a", "r", ":", "/", "/">>

\* Length limits of Fork and GlobalMetadata, scaled down.
Fork_MAX_LABEL_LEN == 2
Fork_MAX_METADATA_URI_LEN == 6
Fork_MAX_TAGS_LEN == 1
GlobalMetadata_MAX_DESCRIPTION_LEN == 2
GlobalMetadata_MAX_TAGS_LEN == 1
GlobalMetadata_MAX_URL_LEN == 8
GlobalMetadata_MAX_ICON_URI_LEN == 6
GlobalMetadata_MAX_EXTRA_JSON_LEN == 1
ForkBump == 251
MetadataBump == 250

InvalidForkOwner == "InvalidForkOwner"
MetadataInvalid == "MetadataInvalid"
ConfigInactive == "ConfigInactive"

\* A Fork account the runtime has not created yet: all bytes zero.
ZeroFork ==
    [ fork_key |-> DefaultPubkey,
      owner |-> DefaultPubkey,
      label |-> <<>>,
      metadata_uri |-> <<>>,
      tags |-> <<>>,
      is_active |-> FALSE,
      created_at |-> 0,
      updated_at |-> 0,
      schema_version |-> 0,
      bump |-> 0 ]

\* Fork::assert_owner.
assert_owner(self, owner_key) ==
    IF owner_key # self.owner THEN InvalidForkOwner ELSE Ok

\* Fork::apply_update: the partial update of a fork; the handler has
\* validated the present fields before it calls.
ForkApplyUpdate(self, maybe_label, maybe_metadata_uri, maybe_tags, maybe_is_active, clock) ==
    [self EXCEPT
        !.label = IF maybe_label.some THEN maybe_label.val ELSE @,
        !.metadata_uri = IF maybe_metadata_uri.some THEN maybe_metadata_uri.val ELSE @,
        !.tags = IF maybe_tags.some THEN maybe_tags.val ELSE @,
        !.is_active = IF maybe_is_active.some THEN maybe_is_active.val ELSE @,
        !.updated_at = clock]

\* The GlobalMetadata account as init_if_needed creates it: all bytes zero.
ZeroGlobalMetadata ==
    [ description |-> <<>>,
      tags |-> <<>>,
      website_url |-> <<>>,
      docs_url |-> <<>>,
      dashboard_url |-> <<>>,
      icon_uri |-> <<>>,
      extra_json |-> <<>>,
      created_at |-> 0,
      updated_at |-> 0,
      schema_version |-> 0,
      bump |-> 0 ]

\* Option::unwrap_or_default on an Option<String>.
unwrap_or_default(maybe) == IF maybe.some THEN maybe.val ELSE <<>>

\* GlobalMetadata::init.
GlobalMetadataInit(description, tags, website_url, docs_url, dashboard_url, icon_uri, extra_json, bump, clock) ==
    [ description |-> description,
      tags |-> tags,
      website_url |-> website_url,
      docs_url |-> docs_url,
      dashboard_url |-> dashboard_url,
      icon_uri |-> icon_uri,
      extra_json |-> extra_json,
      created_at |-> clock,
      updated_at |-> clock,
      schema_version |-> CURRENT_SCHEMA_VERSION,
      bump |-> bump ]

\* GlobalMetadata::apply_update: the partial update of the metadata.
GlobalMetadataApplyUpdate(self, args, clock) ==
    [self EXCEPT
        !.description = IF args.description.some THEN args.description.val ELSE @,
        !.tags = IF args.tags.some THEN args.tags.val ELSE @,
        !.website_url = IF args.website_url.some THEN args.website_url.val ELSE @,
        !.docs_url = IF args.docs_url.some THEN args.docs_url.val ELSE @,
        !.dashboard_url = IF args.dashboard_url.some THEN args.dashboard_url.val ELSE @,
        !.icon_uri = IF args.icon_uri.some THEN args.icon_uri.val ELSE @,
        !.extra_json = IF args.extra_json.some THEN args.extra_json.val ELSE @,
        !.updated_at = clock]

\* Config::assert_admin and Config::assert_active.
assert_admin(cfg, admin_key) ==
    IF admin_key # cfg.admin THEN InvalidAdmin ELSE Ok

assert_active(cfg) ==
    IF ~cfg.is_active THEN ConfigInactive ELSE Ok

(* ------------------- instruction update_fork_state --------------------- *)

\* The outcome of an instruction on the account it writes: the error kind
\* and the account committed (on an error the runtime commits nothing).
InstructionResult(e, account) == [err |-> e, account |-> account]

\* handle() without the lifecycle write gate of its first line.
update_fork_state_NoGate(lifecycle, cfg, fk, owner_key, args, clock) ==
    IF fk.owner # owner_key
    THEN InstructionResult(InvalidForkOwner, fk)
    ELSE IF assert_active(cfg) # Ok
    THEN InstructionResult(assert_active(cfg), fk)
    ELSE IF assert_owner(fk, owner_key) # Ok
    THEN InstructionResult(assert_owner(fk, owner_key), fk)
    ELSE IF args.label.some /\ Len(args.label.val) = 0
    THEN InstructionResult(StringEmpty, fk)
    ELSE IF args.label.some /\ Len(args.label.val) > Fork_MAX_LABEL_LEN
    THEN InstructionResult(StringTooLong, fk)
    ELSE IF args.metadata_uri.some /\ Len(args.metadata_uri.val) = 0
    THEN InstructionResult(StringEmpty, fk)
    ELSE IF /\ args.metadata_uri.some
            /\ Len(args.metadata_uri.val) > Fork_MAX_METADATA_URI_LEN
    THEN InstructionResult(StringTooLong, fk)
    ELSE IF /\ args.metadata_uri.some
            /\ ~ \/ StartsWith(args.metadata_uri.val, Http)
                 \/ StartsWith(args.metadata_uri.val, Https)
                 \/ StartsWith(args.metadata_uri.val, Ipfs)
                 \/ StartsWith(args.metadata_uri.val, Ar)
    THEN InstructionResult(MetadataInvalid, fk)
    ELSE IF args.tags.some /\ Len(args.tags.val) > Fork_MAX_TAGS_LEN
    THEN InstructionResult(StringTooLong, fk)
    ELSE InstructionResult(Ok,
            ForkApplyUpdate(fk, args.label, args.metadata_uri, args.tags,
                            args.is_active, clock))

\* #[derive(Accounts)] UpdateForkState (has_one = owner is checked while the
\* accounts are loaded, before handle runs) and handle().
update_fork_state(lifecycle, cfg, fk, owner_key, args, clock) ==
    IF fk.owner # owner_key
    THEN InstructionResult(InvalidForkOwner, fk)
    ELSE IF assert_writes_allowed(lifecycle) # Ok
    THEN InstructionResult(assert_writes_allowed(lifecycle), fk)
    ELSE IF assert_active(cfg) # Ok
    THEN InstructionResult(assert_active(cfg), fk)
    ELSE IF assert_owner(fk, owner_key) # Ok
    THEN InstructionResult(assert_owner(fk, owner_key), fk)
    ELSE IF args.label.some /\ Len(args.label.val) = 0
    THEN InstructionResult(StringEmpty, fk)
    ELSE IF args.label.some /\ Len(args.label.val) > Fork_MAX_LABEL_LEN
    THEN InstructionResult(StringTooLong, fk)
    ELSE IF args.metadata_uri.some /\ Len(args.metadata_uri.val) = 0
    THEN InstructionResult(StringEmpty, fk)
    ELSE IF /\ args.metadata_uri.some
            /\ Len(args.metadata_uri.val) > Fork_MAX_METADATA_URI_LEN
    THEN InstructionResult(StringTooLong, fk)
    ELSE IF /\ args.metadata_uri.some
            /\ ~ \/ StartsWith(args.metadata_uri.val, Http)
                 \/ StartsWith(args.metadata_uri.val, Https)
                 \/ StartsWith(args.metadata_uri.val, Ipfs)
                 \/ StartsWith(args.metadata_uri.val, Ar)
    THEN InstructionResult(MetadataInvalid, fk)
    ELSE IF args.tags.some /\ Len(args.tags.val) > Fork_MAX_TAGS_LEN
    THEN InstructionResult(StringTooLong, fk)
    ELSE InstructionResult(Ok,
            ForkApplyUpdate(fk, args.label, args.metadata_uri, args.tags,
                            args.is_active, clock))

(* ---------------------- instruction set_metadata ----------------------- *)

has_basic_url_prefix(url) ==
    StartsWith(url, Http) \/ StartsWith(url, Https)

\* The url checks shared by website_url, docs_url and dashboard_url.
UrlArgError(maybe) ==
    IF maybe.some /\ Len(maybe.val) > GlobalMetadata_MAX_URL_LEN
    THEN StringTooLong
    ELSE IF maybe.some /\ Len(maybe.val) # 0 /\ ~has_basic_url_prefix(maybe.val)
    THEN MetadataInvalid
    ELSE Ok

\* #[derive(Accounts)] SetMetadata (init_if_needed hands handle a zeroed
\* account when none exists) and handle().
set_metadata(lifecycle, cfg, md, admin_key, args, clock) ==
    IF assert_writes_allowed(lifecycle) # Ok
    THEN InstructionResult(assert_writes_allowed(lifecycle), md)
    ELSE IF assert_admin(cfg, admin_key) # Ok
    THEN InstructionResult(assert_admin(cfg, admin_key), md)
    ELSE IF assert_active(cfg) # Ok
    THEN InstructionResult(assert_active(cfg), md)
    ELSE IF /\ args.description.some
            /\ Len(args.description.val) > GlobalMetadata_MAX_DESCRIPTION_LEN
    THEN InstructionResult(StringTooLong, md)
    ELSE IF args.tags.some /\ Len(args.tags.val) > GlobalMetadata_MAX_TAGS_LEN
    THEN InstructionResult(StringTooLong, md)
    ELSE IF UrlArgError(args.website_url) # Ok
    THEN InstructionResult(UrlArgError(args.website_url), md)
    ELSE IF UrlArgError(args.docs_url) # Ok
    THEN InstructionResult(UrlArgError(args.docs_url), md)
    ELSE IF UrlArgError(args.dashboard_url) # Ok
    THEN InstructionResult(UrlArgError(args.dashboard_url), md)
    ELSE IF /\ args.icon_uri.some
            /\ Len(args.icon_uri.val) > GlobalMetadata_MAX_ICON_URI_LEN
    THEN InstructionResult(StringTooLong, md)
    ELSE IF /\ args.icon_uri.some
            /\ Len(args.icon_uri.val) # 0
            /\ ~StartsWith(args.icon_uri.val, Http)
            /\ ~StartsWith(args.icon_uri.val, Https)
            /\ ~StartsWith(args.icon_uri.val, Ipfs)
            /\ ~StartsWith(args.icon_uri.val, Ar)
    THEN InstructionResult(MetadataInvalid, md)
    ELSE IF /\ args.extra_json.some
            /\ Len(args.extra_json.val) > GlobalMetadata_MAX_EXTRA_JSON_LEN
    THEN InstructionResult(StringTooLong, md)
    ELSE
    LET is_new == md.created_at = 0 /\ md.updated_at = 0 IN
    IF is_new
    THEN InstructionResult(Ok,
            GlobalMetadataInit(unwrap_or_default(args.description),
                               unwrap_or_default(args.tags),
                               unwrap_or_default(args.website_url),
                               unwrap_or_default(args.docs_url),
                               unwrap_or_default(args.dashboard_url),
                               unwrap_or_default(args.icon_uri),
                               unwrap_or_default(args.extra_json),
                               MetadataBump, clock))
    ELSE InstructionResult(Ok, GlobalMetadataApplyUpdate(md, args, clock))

(* ------------------------------ state ---------------------------------- *)

VARIABLES
    lc,       \* the Lifecycle account
    now,      \* clock.unix_timestamp, monotonically non-decreasing
    call,     \* the last call: method, its arguments, its result
    hist,     \* what has been called so far (observer only, never read by the code)
    deployed, \* the singleton PDAs (config, metrics, lifecycle) exist
    config,   \* the Config account
    auth,     \* one Authority account
    repo,     \* one Repo account
    fork,     \* one Fork account
    metadata  \* the GlobalMetadata account

vars == <<lc, now, call, hist, deployed, config, auth, repo, fork, metadata>>

\* What the methods of Lifecycle leave alone.
nonLifecycleVars == <<deployed, config, auth, repo, fork, metadata>>
\* What the methods of Authority leave alone.
nonAuthorityVars == <<lc, hist, deployed, config, repo, fork, metadata>>
\* What the methods of Repo leave alone.
nonRepoVars == <<lc, hist, deployed, config, auth, fork, metadata>>


Call(op, phase, freeze, result) ==
    [op |-> op, phase |-> phase, freeze |-> freeze, result |-> result]

\* The Config account a successful initialize leaves at clock value `clock`.
DeployedConfig(clock) == ConfigInit(1, 0, 1, 0, ConfigBump, clock)

Init ==
    /\ now \in 0..MaxTime
    /\ \E note_ref \in NoteRefs : lc = LifecycleInit(LifecycleBump, now, note_ref)
    /\ deployed = TRUE
    /\ config = DeployedConfig(now)
    /\ auth = ZeroAuthority
    /\ fork = ZeroFork
    /\ metadata = ZeroGlobalMetadata
    /\ repo = ZeroRepo
    /\ call = Call("init", NoPhase, FALSE, Ok)
    /\ hist = [require_called |-> FALSE, start_called |-> FALSE,
               start_open |-> FALSE, freeze_set |-> FALSE]

(* ----------------------------- actions --------------------------------- *)

Tick ==
    /\ now < MaxTime
    /\ now' = now + 1
    /\ call' = Call("tick", NoPhase, FALSE, Ok)
    /\ UNCHANGED <<lc, hist>>
    /\ UNCHANGED nonLifecycleVars

SetPhase ==
    /\ deployed
    /\ \E p \in Phases :
           LET r == set_phase(lc, p, now) IN
           /\ lc' = r.st
           /\ call' = Call("set_phase", p, FALSE, r.err)
           /\ UNCHANGED <<now, hist>>
           /\ UNCHANGED nonLifecycleVars

SetGlobalFreeze ==
    /\ deployed
    /\ \E b \in BOOLEAN :
           LET r == set_global_freeze(lc, b, now) IN
           /\ lc' = r.st
           /\ call' = Call("set_global_freeze", NoPhase, b, r.err)
           /\ hist' = [hist EXCEPT !.freeze_set = IF r.err = Ok THEN b ELSE @]
           /\ UNCHANGED now
           /\ UNCHANGED nonLifecycleVars

RequireMigration ==
    /\ deployed
    /\ LET r == require_migration(lc, now) IN
       /\ lc' = r.st
       /\ call' = Call("require_migration", NoPhase, FALSE, r.err)
       /\ hist' = [hist EXCEPT !.require_called = TRUE]
       /\ UNCHANGED now
       /\ UNCHANGED nonLifecycleVars

StartMigration ==
    /\ deployed
    /\ LET r == start_migration(lc, now) IN
       /\ lc' = r.st
       /\ call' = Call("start_migration", NoPhase, FALSE, r.err)
       /\ hist' = [hist EXCEPT !.start_called = TRUE,
                               !.start_open = IF r.err = Ok THEN TRUE ELSE @]
       /\ UNCHANGED now
       /\ UNCHANGED nonLifecycleVars

CompleteMigration ==
    /\ deployed
    /\ \E p \in Phases :
           LET r == complete_migration(lc, p, now) IN
           /\ lc' = r.st
           /\ call' = Call("complete_migration", p, FALSE, r.err)
           /\ hist' = [hist EXCEPT !.start_open = IF r.err = Ok THEN FALSE ELSE @]
           /\ UNCHANGED now
           /\ UNCHANGED nonLifecycleVars

UpdateNoteRef ==
    /\ deployed
    /\ \E n \in NoteRefs :
           LET r == update_note_ref(lc, n, now) IN
           /\ lc' = r.st
           /\ call' = Call("update_note_ref", NoPhase, FALSE, r.err)
           /\ UNCHANGED <<now, hist>>
           /\ UNCHANGED nonLifecycleVars

AssertWritesAllowed ==
    /\ deployed
    /\ call' = Call("assert_writes_allowed", NoPhase, FALSE, assert_writes_allowed(lc))
    /\ UNCHANGED <<lc, now, hist>>
    /\ UNCHANGED nonLifecycleVars

IsEffectivelyReadOnly ==
    /\ deployed
    /\ LET r == is_effectively_read_only(lc) IN
       /\ call' = [op |-> "is_effectively_read_only", phase |-> NoPhase,
                   freeze |-> FALSE, result |-> r.err, value |-> r.val]
       /\ UNCHANGED <<lc, now, hist>>
       /\ UNCHANGED nonLifecycleVars

Initialize ==
    \E admin_key \in 1..MaxKey, args \in InitializeArgs :
        LET r == initialize(deployed, lc, config, admin_key, args, now) IN
        /\ deployed' = r.exists
        /\ lc' = r.lifecycle
        /\ config' = r.config
        /\ call' = Call("initialize", NoPhase, FALSE, r.err)
        /\ UNCHANGED <<now, hist, auth, repo, fork, metadata>>

Next ==
    \/ Tick
    \/ SetPhase
    \/ SetGlobalFreeze
    \/ RequireMigration
    \/ StartMigration
    \/ CompleteMigration
    \/ UpdateNoteRef
    \/ AssertWritesAllowed
    \/ IsEffectivelyReadOnly

Spec == Init /\ [][Next]_vars

(* --------------------------- type invariant ---------------------------- *)

TypeOK ==
    /\ lc.phase \in 0..255
    /\ lc.global_freeze \in BOOLEAN
    /\ lc.migration_required \in BOOLEAN
    /\ lc.migration_in_progress \in BOOLEAN
    /\ lc.phase_changed_at \in 0..MaxTime
    /\ lc.migration_state_changed_at \in 0..MaxTime
    /\ lc.created_at \in 0..MaxTime
    /\ lc.updated_at \in 0..MaxTime
    /\ now \in 0..MaxTime

(* ------------------- any stored account as the start ------------------- *)

\* The methods are functions of the stored record.  StoredSpec starts from
\* every record the account layout can hold (timestamps not after the
\* clock), also those no call sequence produces.
StoredInit ==
    /\ now \in 0..MaxTime
    /\ lc \in [ phase : 0..MaxPhaseByte,
                global_freeze : BOOLEAN,
                migration_required : BOOLEAN,
                migration_in_progress : BOOLEAN,
                phase_changed_at : 0..now,
                migration_state_changed_at : 0..now,
                note_ref : NoteRefs,
                created_at : 0..now,
                updated_at : 0..now,
                schema_version : {CURRENT_SCHEMA_VERSION},
                bump : {LifecycleBump} ]
    /\ call = Call("load", NoPhase, FALSE, Ok)
    /\ deployed = TRUE
    /\ config = DeployedConfig(0)
    /\ auth = ZeroAuthority
    /\ fork = ZeroFork
    /\ metadata = ZeroGlobalMetadata
    /\ repo = ZeroRepo
    /\ hist = [require_called |-> FALSE, start_called |-> FALSE,
               start_open |-> FALSE, freeze_set |-> FALSE]

StoredSpec == StoredInit /\ [][Next]_vars

(* ---------------------- deployment from nothing ------------------------ *)

\* Before initialize: no singleton account exists.
DeployInit ==
    /\ now \in 0..MaxTime
    /\ lc = ZeroLifecycle
    /\ config = ZeroConfig
    /\ deployed = FALSE
    /\ auth = ZeroAuthority
    /\ fork = ZeroFork
    /\ metadata = ZeroGlobalMetadata
    /\ repo = ZeroRepo
    /\ call = Call("none", NoPhase, FALSE, Ok)
    /\ hist = [require_called |-> FALSE, start_called |-> FALSE,
               start_open |-> FALSE, freeze_set |-> FALSE]

DeployNext ==
    \/ Initialize
    \/ Next

DeploySpec == DeployInit /\ [][DeployNext]_vars

(* ------------------------ the Authority account ------------------------ *)

Keys == 0..MaxKey
Masks == {BitOr(m, u) : m \in SUBSET ANY, u \in {{}, {UnknownBit}}}

\* The account exists once init has written it (schema_version = 1).
AuthorityExists == auth.schema_version # 0

AuthCall(op, roles, is_global, key, signer, result) ==
    [op |-> op, roles |-> roles, is_global |-> is_global, key |-> key,
     signer |-> signer, result |-> result]

\* The admin-only assignment that creates the entry; a failed init creates
\* nothing.
AuthorityInitCall ==
    /\ ~AuthorityExists
    /\ \E authority \in 1..MaxKey, roles \in Masks, is_global \in BOOLEAN, k \in Keys :
           LET r == AuthorityInit(auth, authority, roles, is_global, k,
                                  AuthorityBump, now) IN
           /\ auth' = r.st
           /\ call' = AuthCall("authority_init", roles, is_global, k, authority, r.err)
    /\ UNCHANGED now
    /\ UNCHANGED nonAuthorityVars

GrantRoles ==
    /\ AuthorityExists
    /\ \E m \in Masks :
           LET r == grant_roles(auth, m, now) IN
           /\ auth' = r.st
           /\ call' = AuthCall("grant_roles", m, FALSE, DefaultPubkey, DefaultPubkey, r.err)
    /\ UNCHANGED now
    /\ UNCHANGED nonAuthorityVars

RevokeRoles ==
    /\ AuthorityExists
    /\ \E m \in Masks :
           LET r == revoke_roles(auth, m, now) IN
           /\ auth' = r.st
           /\ call' = AuthCall("revoke_roles", m, FALSE, DefaultPubkey, DefaultPubkey, r.err)
    /\ UNCHANGED now
    /\ UNCHANGED nonAuthorityVars

SetRoles ==
    /\ AuthorityExists
    /\ \E m \in Masks :
           LET r == set_roles(auth, m, now) IN
           /\ auth' = r.st
           /\ call' = AuthCall("set_roles", m, FALSE, DefaultPubkey, DefaultPubkey, r.err)
    /\ UNCHANGED now
    /\ UNCHANGED nonAuthorityVars

ClearRoles ==
    /\ AuthorityExists
    /\ LET r == clear_roles(auth, now) IN
       /\ auth' = r.st
       /\ call' = AuthCall("clear_roles", {}, FALSE, DefaultPubkey, DefaultPubkey, r.err)
    /\ UNCHANGED now
    /\ UNCHANGED nonAuthorityVars

SetScope ==
    /\ AuthorityExists
    /\ \E is_global \in BOOLEAN, k \in Keys :
           LET r == set_scope(auth, is_global, k, now) IN
           /\ auth' = r.st
           /\ call' = AuthCall("set_scope", {}, is_global, k, DefaultPubkey, r.err)
    /\ UNCHANGED now
    /\ UNCHANGED nonAuthorityVars

AssertAllowedForResource ==
    /\ AuthorityExists
    /\ \E signer \in 1..MaxKey, required_roles \in Masks, resource \in Keys :
           call' = AuthCall("assert_allowed_for_resource", required_roles, FALSE,
                            resource, signer,
                            assert_allowed_for_resource(auth, signer,
                                                        required_roles, resource))
    /\ UNCHANGED <<auth, now>>
    /\ UNCHANGED nonAuthorityVars

AuthorityInitState ==
    /\ now = 0
    /\ auth = ZeroAuthority
    /\ fork = ZeroFork
    /\ metadata = ZeroGlobalMetadata
    /\ repo = ZeroRepo
    /\ lc = LifecycleInit(LifecycleBump, 0, 0)
    /\ deployed = TRUE
    /\ config = DeployedConfig(0)
    /\ call = AuthCall("none", {}, FALSE, DefaultPubkey, DefaultPubkey, Ok)
    /\ hist = [require_called |-> FALSE, start_called |-> FALSE,
               start_open |-> FALSE, freeze_set |-> FALSE]

AuthorityNext ==
    \/ Tick
    \/ AuthorityInitCall
    \/ GrantRoles
    \/ RevokeRoles
    \/ SetRoles
    \/ ClearRoles
    \/ SetScope
    \/ AssertAllowedForResource

AuthoritySpec == AuthorityInitState /\ [][AuthorityNext]_vars

(* -------------------------- the Repo account --------------------------- *)

\* Strings offered at registration: empty, valid, too long, malformed.
NameInputs == { <<>>, <<"a">>, <<"a", "b">>, <<"a", "b", "c">> }
UrlInputs ==
    { <<>>,
      <<":", "/", "/", ".">>,
      <<"a", ":", "/", "/", ".">>,
      <<"a", ".", "b">>,
      <<":", "/", "/", "a">>,
      <<"a", ":", "/", "/", ".", "b">> }
TagsInputs == { <<>>, <<"t">>, <<"t", "t">> }

RepoCall(op, result) == [op |-> op, result |-> result]

\* The Config accounts a successful initialize by admin 1 at clock 0 leaves:
\* one for every max_modules_per_repo the instruction accepts.
AcceptedConfigs ==
    { initialize(FALSE, ZeroLifecycle, ZeroConfig, 1, args, 0).config :
        args \in { a \in InitializeArgs :
                     /\ a.admin = 1
                     /\ a.fee_bps = MAX_FEE_BPS
                     /\ a.lifecycle_note_ref = 0
                     /\ initialize(FALSE, ZeroLifecycle, ZeroConfig, 1, a, 0).err = Ok } }

\* The state a successful registration (Repo::init) leaves.
RepoInitState ==
    /\ now \in 0..MaxTime
    /\ \E authority \in 1..MaxKey, name \in NameInputs, url \in UrlInputs,
          tags \in TagsInputs, allow_observation \in BOOLEAN :
          LET r == RepoInit(ZeroRepo, 1, authority, name, url, tags,
                            allow_observation, RepoBump, now) IN
          /\ r.err = Ok
          /\ repo = r.st
    /\ call = RepoCall("repo_init", Ok)
    /\ auth = ZeroAuthority
    /\ fork = ZeroFork
    /\ metadata = ZeroGlobalMetadata
    /\ lc = LifecycleInit(LifecycleBump, 0, 0)
    /\ deployed = TRUE
    /\ config \in AcceptedConfigs
    /\ hist = [require_called |-> FALSE, start_called |-> FALSE,
               start_open |-> FALSE, freeze_set |-> FALSE]

IncrementModuleCount ==
    LET r == increment_module_count(repo) IN
    /\ repo' = r.st
    /\ call' = RepoCall("increment_module_count", r.err)
    /\ UNCHANGED now
    /\ UNCHANGED nonRepoVars

DecrementModuleCount ==
    LET r == decrement_module_count(repo) IN
    /\ repo' = r.st
    /\ call' = RepoCall("decrement_module_count", r.err)
    /\ UNCHANGED now
    /\ UNCHANGED nonRepoVars

\* Arguments of record_observation: up to one above each per-call maximum.
LinesInputs == 0..(MAX_LOC_PER_OBSERVATION + 1)
FilesInputs == 0..(MAX_FILES_PER_OBSERVATION + 1)

RecordObservation ==
    \E lines_of_code \in LinesInputs, files_processed \in FilesInputs :
        LET r == record_observation(repo, lines_of_code, files_processed) IN
        /\ repo' = r.st
        /\ call' = [ op |-> "record_observation", result |-> r.err,
                     lines_of_code |-> lines_of_code,
                     files_processed |-> files_processed ]
        /\ UNCHANGED now
        /\ UNCHANGED nonRepoVars

RepoNext ==
    \/ Tick
    \/ IncrementModuleCount
    \/ DecrementModuleCount
    \/ RecordObservation

RepoSpec == RepoInitState /\ [][RepoNext]_vars

(* ----------------- registration and partial update -------------------- *)

RepoExists == repo.schema_version # 0

\* A repository in use: registered at clock 0, one module and one
\* observation recorded.
UsedRepo ==
    LET registered == RepoInit(ZeroRepo, 1, 1, <<"a">>,
                               <<":", "/", "/", ".">>, <<>>, TRUE, RepoBump, 0).st
        counted == increment_module_count(registered).st
    IN  record_observation(counted, 1, 1).st

\* Optional arguments of apply_update: absent, a valid value, an invalid one.
MaybeNames == {None, Some(<<"a", "b">>), Some(<<>>)}
MaybeUrls == {None, Some(<<"a", ":", "/", "/", ".">>), Some(<<"a", ".", "b">>)}
MaybeTags == {None, Some(<<"t">>), Some(<<"t", "t">>)}
MaybeBools == {None, Some(TRUE), Some(FALSE)}

\* Before registration: the account register_repo is about to create.
RepoRegisterInit ==
    /\ now \in 0..MaxTime
    /\ repo = ZeroRepo
    /\ call = RepoCall("load", Ok)
    /\ auth = ZeroAuthority
    /\ fork = ZeroFork
    /\ metadata = ZeroGlobalMetadata
    /\ lc = LifecycleInit(LifecycleBump, 0, 0)
    /\ deployed = TRUE
    /\ config = DeployedConfig(0)
    /\ hist = [require_called |-> FALSE, start_called |-> FALSE,
               start_open |-> FALSE, freeze_set |-> FALSE]

RepoUpdateInit ==
    /\ now \in 0..MaxTime
    /\ repo = UsedRepo
    /\ call = RepoCall("load", Ok)
    /\ auth = ZeroAuthority
    /\ fork = ZeroFork
    /\ metadata = ZeroGlobalMetadata
    /\ lc = LifecycleInit(LifecycleBump, 0, 0)
    /\ deployed = TRUE
    /\ config = DeployedConfig(0)
    /\ hist = [require_called |-> FALSE, start_called |-> FALSE,
               start_open |-> FALSE, freeze_set |-> FALSE]

\* Repo::init on the account register_repo has just created.
RepoInitCall ==
    /\ ~RepoExists
    /\ \E authority \in 1..MaxKey, name \in NameInputs, url \in UrlInputs,
          tags \in TagsInputs, allow_observation \in BOOLEAN :
          LET r == RepoInit(repo, 1, authority, name, url, tags,
                            allow_observation, RepoBump, now) IN
          /\ repo' = r.st
          /\ call' = [ op |-> "repo_init", result |-> r.err,
                       authority |-> authority, name |-> name, url |-> url,
                       tags |-> tags, allow_observation |-> allow_observation ]
    /\ UNCHANGED now
    /\ UNCHANGED nonRepoVars

ApplyUpdate ==
    /\ RepoExists
    /\ \E maybe_name \in MaybeNames, maybe_url \in MaybeUrls,
          maybe_tags \in MaybeTags, maybe_is_active \in MaybeBools,
          maybe_allow_observation \in MaybeBools :
          LET r == apply_update(repo, maybe_name, maybe_url, maybe_tags,
                                maybe_is_active, maybe_allow_observation, now) IN
          /\ repo' = r.st
          /\ call' = [ op |-> "apply_update", result |-> r.err,
                       maybe_name |-> maybe_name, maybe_url |-> maybe_url,
                       maybe_tags |-> maybe_tags,
                       maybe_is_active |-> maybe_is_active,
                       maybe_allow_observation |-> maybe_allow_observation ]
    /\ UNCHANGED now
    /\ UNCHANGED nonRepoVars

RepoRegisterNext ==
    \/ Tick
    \/ RepoInitCall

RepoRegisterSpec == RepoRegisterInit /\ [][RepoRegisterNext]_vars

RepoUpdateNext ==
    \/ Tick
    \/ ApplyUpdate

RepoUpdateSpec == RepoUpdateInit /\ [][RepoUpdateNext]_vars

(* ------------------------ the guarded mutators ------------------------- *)

\* A fork created at clock 0 and owned by key 1.
ExistingFork ==
    [ fork_key |-> 1,
      owner |-> 1,
      label |-> <<"a">>,
      metadata_uri |-> <<>>,
      tags |-> <<>>,
      is_active |-> TRUE,
      created_at |-> 0,
      updated_at |-> 0,
      schema_version |-> CURRENT_SCHEMA_VERSION,
      bump |-> ForkBump ]

UpdateForkStateArgs ==
    [ label : {None, Some(<<"b">>), Some(<<>>)},
      metadata_uri : {None, Some(Ar), Some(<<"x">>)},
      tags : {None},
      is_active : {None, Some(TRUE), Some(FALSE)} ]

SetMetadataArgs ==
    [ description : {None, Some(<<"d">>), Some(<<"d", "d", "d">>)},
      tags : {None},
      website_url : {None, Some(Http), Some(<<"x">>)},
      docs_url : {None},
      dashboard_url : {None},
      icon_uri : {None},
      extra_json : {None} ]

\* The deployment the mutators run against: any stored lifecycle flags and
\* phase byte, the configuration active or not, one fork, no metadata yet.
MutatorInit ==
    /\ now \in 0..MaxTime
    /\ \E phase \in 0..MaxPhaseByte, freeze \in BOOLEAN, required \in BOOLEAN :
          lc = [LifecycleInit(LifecycleBump, 0, 0) EXCEPT
                    !.phase = phase,
                    !.global_freeze = freeze,
                    !.migration_required = required]
    /\ \E active \in BOOLEAN :
          config = [DeployedConfig(0) EXCEPT !.is_active = active]
    /\ deployed = TRUE
    /\ auth = ZeroAuthority
    /\ repo = ZeroRepo
    /\ fork = ExistingFork
    /\ metadata = ZeroGlobalMetadata
    /\ call = [op |-> "load", result |-> Ok]
    /\ hist = [require_called |-> FALSE, start_called |-> FALSE,
               start_open |-> FALSE, freeze_set |-> FALSE]

UpdateForkState ==
    \E owner_key \in 1..MaxKey, args \in UpdateForkStateArgs :
        LET r == update_fork_state(lc, config, fork, owner_key, args, now) IN
        /\ fork' = r.account
        /\ call' = [ op |-> "update_fork_state", result |-> r.err,
                     signer |-> owner_key, args |-> args ]
        /\ UNCHANGED <<lc, now, hist, deployed, config, auth, repo, metadata>>

SetMetadata ==
    \E admin_key \in 1..MaxKey, args \in SetMetadataArgs :
        LET r == set_metadata(lc, config, metadata, admin_key, args, now) IN
        /\ metadata' = r.account
        /\ call' = [ op |-> "set_metadata", result |-> r.err,
                     signer |-> admin_key, args |-> args ]
        /\ UNCHANGED <<lc, now, hist, deployed, config, auth, repo, fork>>

MutatorNext ==
    \/ Tick
    \/ UpdateForkState
    \/ SetMetadata

MutatorSpec == MutatorInit /\ [][MutatorNext]_vars

(* ------------- lifecycle operations, mutators and counters ------------- *)

\* One deployment after initialize at clock 0, with one fork and one
\* registered repository; the operations of all callers arrive one at a
\* time, in any order.
SerialInit ==
    /\ now \in 0..MaxTime
    /\ lc = LifecycleInit(LifecycleBump, 0, 0)
    /\ config = DeployedConfig(0)
    /\ deployed = TRUE
    /\ auth = ZeroAuthority
    /\ fork = ExistingFork
    /\ metadata = ZeroGlobalMetadata
    /\ repo = RepoInit(ZeroRepo, 1, 1, <<"a">>, <<":", "/", "/", ".">>, <<>>,
                       TRUE, RepoBump, 0).st
    /\ call = [op |-> "load", result |-> Ok]
    /\ hist = [require_called |-> FALSE, start_called |-> FALSE,
               start_open |-> FALSE, freeze_set |-> FALSE]

\* Arguments of the interleaved update_fork_state calls: nothing, a new
\* label, an empty label, a deactivation.
SerialForkArgs ==
    { a \in UpdateForkStateArgs :
        /\ a.metadata_uri = None
        /\ a.is_active \in {None, Some(FALSE)}
        /\ a.is_active = None \/ a.label = None }

UpdateForkStateSerial ==
    \E owner_key \in 1..MaxKey, args \in SerialForkArgs :
        LET r == update_fork_state(lc, config, fork, owner_key, args, now) IN
        /\ fork' = r.account
        /\ call' = [ op |-> "update_fork_state", result |-> r.err,
                     signer |-> owner_key, args |-> args ]
        /\ UNCHANGED <<lc, now, hist, deployed, config, auth, repo, metadata>>

SerialNext ==
    \/ SetPhase
    \/ SetGlobalFreeze
    \/ RequireMigration
    \/ StartMigration
    \/ CompleteMigration
    \/ UpdateForkStateSerial
    \/ IncrementModuleCount
    \/ DecrementModuleCount

SerialSpec == SerialInit /\ [][SerialNext]_vars

(* ------------------------------ claims --------------------------------- *)

\* C1: for every lifecycle state with a recognized phase, assert_writes_allowed
\* fails if and only if global_freeze is true, or the phase is Frozen,
\* Migration or Sunset, or migration_required is true while
\* migration_in_progress is false; otherwise it succeeds; it never modifies
\* the lifecycle state.
C1_WriteGuardExact ==
    [][ (call'.op = "assert_writes_allowed" /\ from_u8(lc.phase) # NoPhase) =>
            /\ lc' = lc
            /\ call'.result # Ok <=>
                  \/ lc.global_freeze
                  \/ from_u8(lc.phase) \in {"Frozen", "Migration", "Sunset"}
                  \/ (lc.migration_required /\ ~lc.migration_in_progress) ]_vars

C1_Witness ==
    /\ call.op = "assert_writes_allowed"
    /\ call.result = Ok
    /\ from_u8(lc.phase) = "Operational"
    /\ ~lc.global_freeze
    /\ ~lc.migration_required

\* C2: after a successful set_global_freeze(true) and until a later
\* set_global_freeze(false), every assert_writes_allowed fails with the
\* lifecycle-blocked kind (InvalidLifecycleState), whatever set_phase,
\* require_migration, start_migration and complete_migration calls come in
\* between.
C2_FreezeBlocksWrites ==
    [][ (hist'.freeze_set /\ call'.op = "assert_writes_allowed") =>
            call'.result = InvalidLifecycleState ]_vars

C2_Witness ==
    /\ hist.freeze_set
    /\ hist.start_called
    /\ call.op = "assert_writes_allowed"
    /\ call.result = InvalidLifecycleState
    /\ from_u8(lc.phase) = "Operational"
    /\ ~lc.migration_required

\* C3 (as claimed): after require_migration and before any start_migration,
\* assert_writes_allowed rejects the write with the same failure kind it
\* reports for a global freeze and for a write-restricted phase.
C3_Original ==
    [][ (hist'.require_called /\ ~hist'.start_called
            /\ call'.op = "assert_writes_allowed") =>
            /\ call'.result # Ok
            /\ call'.result = assert_writes_allowed([lc EXCEPT !.global_freeze = TRUE])
            /\ call'.result = assert_writes_allowed([lc EXCEPT !.phase = as_u8("Frozen")]) ]_vars

\* C3 (amended): after require_migration and before any start_migration,
\* assert_writes_allowed rejects the write: with MigrationRequired, a kind of
\* its own, when there is no global freeze and the phase is not
\* write-restricted, and with InvalidLifecycleState, the kind of the freeze and
\* phase checks, otherwise.
C3_RequiredBlocksWrites ==
    [][ (hist'.require_called /\ ~hist'.start_called
            /\ call'.op = "assert_writes_allowed") =>
            /\ call'.result # Ok
            /\ call'.result =
                  IF lc.global_freeze \/ is_write_restricted(from_u8(lc.phase))
                  THEN InvalidLifecycleState
                  ELSE MigrationRequired
            /\ MigrationRequired # InvalidLifecycleState ]_vars

C3_Witness ==
    /\ hist.require_called
    /\ ~hist.start_called
    /\ call.op = "assert_writes_allowed"
    /\ call.result = MigrationRequired

\* C4: start_migration fails with the not-required kind (MigrationRequired in
\* the code) when migration_required is false, also when migration_in_progress
\* is true; fails with the already-in-progress kind (MigrationAlreadyApplied)
\* when both flags are true; otherwise sets migration_in_progress and
\* phase = Migration whatever the phase was, leaving global_freeze and
\* migration_required unchanged.
C4_StartMigration ==
    [][ call'.op = "start_migration" =>
            IF ~lc.migration_required
            THEN call'.result = MigrationRequired /\ lc' = lc
            ELSE IF lc.migration_in_progress
            THEN call'.result = MigrationAlreadyApplied /\ lc' = lc
            ELSE /\ call'.result = Ok
                 /\ lc'.migration_in_progress
                 /\ from_u8(lc'.phase) = "Migration"
                 /\ lc'.global_freeze = lc.global_freeze
                 /\ lc'.migration_required = lc.migration_required ]_vars

C4_Witness ==
    /\ call.op = "start_migration"
    /\ call.result = MigrationRequired
    /\ ~lc.migration_required
    /\ lc.migration_in_progress

\* C5: a start_migration that follows a successful start_migration with no
\* successful complete_migration in between fails with
\* MigrationAlreadyApplied and leaves every lifecycle field unchanged,
\* whatever set_phase, set_global_freeze or require_migration calls occur in
\* between.
C5_SecondStartFails ==
    [][ (hist.start_open /\ call'.op = "start_migration") =>
            call'.result = MigrationAlreadyApplied /\ lc' = lc ]_vars

C5_Witness ==
    /\ hist.start_open
    /\ call.op = "start_migration"
    /\ call.result = MigrationAlreadyApplied
    /\ from_u8(lc.phase) = "Operational"
    /\ lc.global_freeze

\* C6 (as claimed): complete_migration called while migration_in_progress is
\* false fails with a kind of its own, different from the kind start_migration
\* returns when no migration is required, and leaves every lifecycle field
\* unchanged.
C6_Original ==
    [][ (call'.op = "complete_migration" /\ ~lc.migration_in_progress) =>
            /\ call'.result # Ok
            /\ call'.result #
                  start_migration([lc EXCEPT !.migration_required = FALSE], now).err
            /\ lc' = lc ]_vars

\* C7: when migration_in_progress is true, complete_migration(next_phase)
\* succeeds for each of the six phases, clears migration_required and
\* migration_in_progress, sets phase = next_phase and leaves global_freeze
\* unchanged.
C7_CompleteMigration ==
    [][ (call'.op = "complete_migration" /\ lc.migration_in_progress) =>
            /\ call'.result = Ok
            /\ ~lc'.migration_required
            /\ ~lc'.migration_in_progress
            /\ from_u8(lc'.phase) = call'.phase
            /\ lc'.global_freeze = lc.global_freeze ]_vars

C7_Witness ==
    /\ call.op = "complete_migration"
    /\ call.result = Ok
    /\ call.phase = "Sunset"
    /\ from_u8(lc.phase) = "Sunset"
    /\ lc.global_freeze

\* C8: set_phase(p) with p the current phase succeeds and leaves every
\* lifecycle field unchanged, phase_changed_at and updated_at included; with
\* another p it sets phase = p and phase_changed_at to the current time and
\* leaves global_freeze, migration_required and migration_in_progress
\* unchanged.
C8_SetPhaseFrame ==
    [][ call'.op = "set_phase" =>
            /\ call'.result = Ok
            /\ IF call'.phase = from_u8(lc.phase)
               THEN lc' = lc
               ELSE /\ from_u8(lc'.phase) = call'.phase
                    /\ lc'.phase_changed_at = now
                    /\ lc'.global_freeze = lc.global_freeze
                    /\ lc'.migration_required = lc.migration_required
                    /\ lc'.migration_in_progress = lc.migration_in_progress ]_vars

C8_Witness ==
    /\ call.op = "set_phase"
    /\ call.result = Ok
    /\ call.phase = from_u8(lc.phase)
    /\ lc.updated_at < now
    /\ lc.phase_changed_at < now

\* C9: no transition table restricts phases: in every reachable lifecycle
\* state set_phase(p) succeeds for each of the six phases and yields
\* phase = p, also out of Sunset or Frozen and into or out of Migration with
\* no migration flag set.
C9_AnyPhaseFollowsAny ==
    /\ call.op = "set_phase" =>
          call.result = Ok /\ from_u8(lc.phase) = call.phase
    /\ \A p \in Phases :
          /\ set_phase(lc, p, now).err = Ok
          /\ from_u8(set_phase(lc, p, now).st.phase) = p

C9_Witness ==
    /\ call.op = "set_phase"
    /\ call.phase = "Migration"
    /\ from_u8(lc.phase) = "Migration"
    /\ ~lc.migration_required
    /\ ~lc.migration_in_progress

\* C10: require_migration always succeeds, sets migration_required and leaves
\* phase, global_freeze and migration_in_progress unchanged; called when
\* migration_required is already true it leaves phase and all three flags as
\* they were.
C10_RequireMigration ==
    [][ call'.op = "require_migration" =>
            /\ call'.result = Ok
            /\ lc'.migration_required
            /\ lc'.phase = lc.phase
            /\ lc'.global_freeze = lc.global_freeze
            /\ lc'.migration_in_progress = lc.migration_in_progress ]_vars

C10_Witness ==
    /\ call.op = "require_migration"
    /\ call.result = Ok
    /\ lc.migration_required
    /\ lc.migration_in_progress
    /\ from_u8(lc.phase) = "Maintenance"

\* C11: is_effectively_read_only returns true exactly when global_freeze is
\* true or the phase is Frozen or Sunset; whenever it returns true
\* assert_writes_allowed fails, but not conversely: with phase = Migration and
\* no freeze the write guard fails while the query returns false.
C11_ReadOnlyQuery ==
    [][ (call'.op = "is_effectively_read_only" /\ from_u8(lc.phase) # NoPhase) =>
            /\ call'.result = Ok
            /\ lc' = lc
            /\ call'.value <=>
                  (lc.global_freeze \/ from_u8(lc.phase) \in {"Frozen", "Sunset"})
            /\ call'.value => assert_writes_allowed(lc) # Ok
            /\ (from_u8(lc.phase) = "Migration" /\ ~lc.global_freeze) =>
                  (~call'.value /\ assert_writes_allowed(lc) # Ok) ]_vars

C11_Witness ==
    /\ call.op = "is_effectively_read_only"
    /\ call.result = Ok
    /\ ~call.value
    /\ from_u8(lc.phase) = "Migration"
    /\ ~lc.global_freeze
    /\ assert_writes_allowed(lc) # Ok

\* C12: set_global_freeze(b) succeeds in every phase and every combination of
\* migration flags, sets global_freeze = b and leaves phase, phase_changed_at,
\* migration_required and migration_in_progress unchanged.
C12_SetGlobalFreezeFrame ==
    [][ call'.op = "set_global_freeze" =>
            /\ call'.result = Ok
            /\ lc'.global_freeze = call'.freeze
            /\ lc'.phase = lc.phase
            /\ lc'.phase_changed_at = lc.phase_changed_at
            /\ lc'.migration_required = lc.migration_required
            /\ lc'.migration_in_progress = lc.migration_in_progress ]_vars

C12_Witness ==
    /\ call.op = "set_global_freeze"
    /\ call.result = Ok
    /\ call.freeze
    /\ lc.global_freeze
    /\ from_u8(lc.phase) = "Operational"
    /\ lc.migration_required
    /\ lc.migration_in_progress
    /\ lc.phase_changed_at < now

\* C13 (as claimed): the lifecycle initializer leaves phase = Bootstrapping,
\* the three flags false and all timestamp fields stamped with the current
\* time; it takes effect once per deployment: a second attempt fails and a
\* lifecycle state changed by later operations is never reset.
C13_Original ==
    [][ call'.op = "initialize" =>
            IF deployed
            THEN call'.result # Ok /\ lc' = lc /\ deployed'
            ELSE call'.result = Ok =>
                    /\ deployed'
                    /\ from_u8(lc'.phase) = "Bootstrapping"
                    /\ ~lc'.global_freeze
                    /\ ~lc'.migration_required
                    /\ ~lc'.migration_in_progress
                    /\ lc'.phase_changed_at = now
                    /\ lc'.migration_state_changed_at = now
                    /\ lc'.created_at = now
                    /\ lc'.updated_at = now ]_vars

\* C13 (amended): the lifecycle initializer leaves phase = Bootstrapping, the
\* three flags false, phase_changed_at, created_at and updated_at stamped with
\* the current time and migration_state_changed_at set to 0; it takes effect
\* once per deployment: a second attempt fails and a lifecycle state changed
\* by later operations is never reset.
C13_InitializeOnce ==
    [][ call'.op = "initialize" =>
            IF deployed
            THEN call'.result # Ok /\ lc' = lc /\ deployed'
            ELSE call'.result = Ok =>
                    /\ deployed'
                    /\ from_u8(lc'.phase) = "Bootstrapping"
                    /\ ~lc'.global_freeze
                    /\ ~lc'.migration_required
                    /\ ~lc'.migration_in_progress
                    /\ lc'.phase_changed_at = now
                    /\ lc'.migration_state_changed_at = 0
                    /\ lc'.created_at = now
                    /\ lc'.updated_at = now ]_vars

C13_Witness ==
    /\ deployed
    /\ call.op = "initialize"
    /\ call.result = AccountAlreadyInUse
    /\ lc.global_freeze
    /\ from_u8(lc.phase) = "Operational"
    /\ lc.created_at < now

\* C14: in every state reachable from a successful Authority init through
\* any sequence of successful or failing grant_roles, revoke_roles, set_roles
\* and clear_roles calls with arbitrary masks, the stored roles bitmask has no
\* bit outside ADMIN | MAINTAINER | OBSERVER.
C14_RolesWithinKnownMask ==
    BitAnd(auth.roles, BitNot(BitOr(BitOr(ADMIN, MAINTAINER), OBSERVER))) = {}

C14_Witness ==
    /\ AuthorityExists
    /\ call.op = "grant_roles"
    /\ call.result # Ok
    /\ UnknownBit \in call.roles
    /\ BitAnd(call.roles, ANY) # {}
    /\ auth.roles = OBSERVER

\* C15: Authority init, grant_roles and set_roles called with a mask that has
\* a bit outside ADMIN | MAINTAINER | OBSERVER fail with the invalid-role-bits
\* kind (AuthorityRoleNotAllowed in the code) and leave the entry (identity,
\* roles, scope, timestamps) exactly as it was before the call.
C15_InvalidMaskRejected ==
    [][ (/\ call'.op \in {"authority_init", "grant_roles", "set_roles"}
         /\ BitAnd(call'.roles, BitNot(ANY)) # {}) =>
            /\ call'.result = AuthorityRoleNotAllowed
            /\ auth' = auth ]_vars

C15_Witness ==
    /\ AuthorityExists
    /\ call.op = "set_roles"
    /\ call.result = AuthorityRoleNotAllowed
    /\ call.roles = BitOr(ADMIN, {UnknownBit})
    /\ auth.roles = MAINTAINER
    /\ auth.updated_at < now

\* C16: for every stored roles value r and valid mask m, grant_roles(m)
\* yields r OR m, revoke_roles(m) yields r AND NOT m, set_roles(m) yields m and
\* clear_roles yields 0; hence grant_roles is idempotent, grant_roles(m)
\* followed by revoke_roles(m) leaves no bit of m set, and none of the four
\* changes identity or scope.
C16_RoleAlgebra ==
    [][ (/\ call'.op \in {"grant_roles", "revoke_roles", "set_roles", "clear_roles"}
         /\ BitAnd(call'.roles, BitNot(ANY)) = {}) =>
            /\ call'.result = Ok
            /\ auth'.authority = auth.authority
            /\ auth'.is_global = auth.is_global
            /\ auth'.resource_scope = auth.resource_scope
            /\ call'.op = "grant_roles" =>
                  /\ auth'.roles = auth.roles \cup call'.roles
                  /\ grant_roles(auth', call'.roles, now).st.roles = auth'.roles
                  /\ revoke_roles(auth', call'.roles, now).st.roles \cap call'.roles = {}
            /\ call'.op = "revoke_roles" => auth'.roles = auth.roles \ call'.roles
            /\ call'.op = "set_roles" => auth'.roles = call'.roles
            /\ call'.op = "clear_roles" => auth'.roles = {} ]_vars

C16_Witness ==
    /\ call.op = "revoke_roles"
    /\ call.result = Ok
    /\ call.roles = BitOr(ADMIN, MAINTAINER)
    /\ auth.roles = OBSERVER
    /\ ~auth.is_global
    /\ auth.resource_scope = 2

\* C17: in every state reachable through init and set_scope a global entry
\* stores the default resource id (set_scope(true, id) and a global init
\* discard the supplied id); matches_resource(target) is true for every target
\* when the entry is global and otherwise only for the stored id.
C17_GlobalScopeHasDefaultId ==
    /\ auth.is_global => auth.resource_scope = DefaultPubkey
    /\ (call.op \in {"set_scope", "authority_init"} /\ call.result = Ok) =>
          /\ auth.is_global = call.is_global
          /\ auth.resource_scope = IF call.is_global THEN DefaultPubkey ELSE call.key
    /\ \A target \in Keys :
          matches_resource(auth, target) <=>
              (auth.is_global \/ target = auth.resource_scope)

C17_Witness ==
    /\ call.op = "set_scope"
    /\ call.is_global
    /\ call.key = 2
    /\ auth.is_global
    /\ auth.resource_scope = DefaultPubkey
    /\ matches_resource(auth, 1)

\* C18 (as claimed): assert_allowed_for_resource evaluates in strict order and
\* reports three distinguishable failures: the identity kind if the signer is
\* not the stored identity, otherwise the scope kind if the scope does not
\* match the resource, otherwise the role kind if roles AND required_roles is
\* 0, otherwise success.  The kinds are read off calls that fail one check
\* only.
C18_Original ==
    call.op = "assert_allowed_for_resource" =>
        LET identityKind ==
                assert_allowed_for_resource(
                    [auth EXCEPT !.is_global = TRUE, !.roles = ANY],
                    IF auth.authority = 1 THEN 2 ELSE 1, ANY, call.key)
            scopeKind ==
                assert_allowed_for_resource(
                    [auth EXCEPT !.is_global = FALSE,
                                 !.resource_scope = IF call.key = 1 THEN 2 ELSE 1,
                                 !.roles = ANY],
                    auth.authority, ANY, call.key)
            roleKind ==
                assert_allowed_for_resource(
                    [auth EXCEPT !.is_global = TRUE, !.roles = {}],
                    auth.authority, ANY, call.key)
        IN  /\ Ok \notin {identityKind, scopeKind, roleKind}
            /\ identityKind # scopeKind
            /\ identityKind # roleKind
            /\ scopeKind # roleKind
            /\ call.result =
                  IF call.signer # auth.authority THEN identityKind
                  ELSE IF ~(auth.is_global \/ auth.resource_scope = call.key)
                  THEN scopeKind
                  ELSE IF auth.roles \cap call.roles = {} THEN roleKind
                  ELSE Ok

\* C19: for a signer that is not the stored identity the outcome of
\* assert_allowed_for_resource is the identity failure (InvalidAuthority) and
\* is the same for every entry that differs only in roles or scope and for
\* every required_roles and resource.
C19_IdentityCheckedFirst ==
    (call.op = "assert_allowed_for_resource" /\ call.signer # auth.authority) =>
        /\ call.result = InvalidAuthority
        /\ \A roles \in SUBSET ANY, is_global \in BOOLEAN, scope \in Keys,
              required_roles \in Masks, resource \in Keys :
              assert_allowed_for_resource(
                  [auth EXCEPT !.roles = roles, !.is_global = is_global,
                               !.resource_scope = scope],
                  call.signer, required_roles, resource) = call.result

C19_Witness ==
    /\ call.op = "assert_allowed_for_resource"
    /\ call.signer # auth.authority
    /\ call.result = InvalidAuthority
    /\ ~matches_resource(auth, call.key)
    /\ ~has_any_role(auth, call.roles)

\* C20: in every state reachable from registration through any sequence of
\* increment_module_count and decrement_module_count calls, module_count never
\* exceeds the ceiling N; below N an increment succeeds and adds exactly 1 (so
\* N successive increments from 0 succeed), and an increment attempted at
\* module_count = N fails with the limit-reached kind and leaves module_count
\* at N and every other field unchanged.
C20_ModuleCountCeiling ==
    [][ /\ repo'.module_count <= DEFAULT_MAX_MODULES_PER_REPO
        /\ call'.op = "increment_module_count" =>
              IF repo.module_count < DEFAULT_MAX_MODULES_PER_REPO
              THEN /\ call'.result = Ok
                   /\ repo' = [repo EXCEPT !.module_count = repo.module_count + 1]
              ELSE /\ call'.result = RepoModuleLimitReached
                   /\ repo' = repo
                   /\ repo'.module_count = DEFAULT_MAX_MODULES_PER_REPO ]_vars

C20_Witness ==
    /\ call.op = "increment_module_count"
    /\ call.result = RepoModuleLimitReached
    /\ repo.module_count = DEFAULT_MAX_MODULES_PER_REPO
    /\ repo.updated_at < now

\* C21 (as claimed): the ceiling increment_module_count enforces is the
\* max_modules_per_repo held by the Config singleton: for every N accepted at
\* initialization, the increment that would make module_count exceed N is
\* rejected with the limit-reached kind and module_count never exceeds N.
C21_Original ==
    [][ /\ call'.op = "increment_module_count"
        /\ repo.module_count + 1 > config.max_modules_per_repo
        => /\ call'.result = RepoModuleLimitReached
           /\ repo'.module_count <= config.max_modules_per_repo ]_vars

\* C22: decrement_module_count on a repository whose module_count is 0 fails
\* with CounterOverflow and leaves module_count at 0 (no wrap-around); with
\* module_count > 0 it succeeds, lowers module_count by exactly 1 and changes
\* no other field.
C22_DecrementChecked ==
    [][ call'.op = "decrement_module_count" =>
            IF repo.module_count = 0
            THEN /\ call'.result = CounterOverflow
                 /\ repo' = repo
                 /\ repo'.module_count = 0
            ELSE /\ call'.result = Ok
                 /\ repo' = [repo EXCEPT !.module_count = repo.module_count - 1] ]_vars

C22_Witness ==
    /\ call.op = "decrement_module_count"
    /\ call.result = CounterOverflow
    /\ repo.module_count = 0
    /\ repo.is_active

\* C23: record_observation(lines, files) with lines above the per-call lines
\* maximum or files above the per-call files maximum fails with the
\* data-too-large kind and leaves observation_count, total_lines_of_code,
\* total_files_processed and every other repository field at their prior
\* values.
C23_OverLimitRejected ==
    [][ /\ call'.op = "record_observation"
        /\ \/ call'.lines_of_code > MAX_LOC_PER_OBSERVATION
           \/ call'.files_processed > MAX_FILES_PER_OBSERVATION
        => /\ call'.result = ObservationDataTooLarge
           /\ repo' = repo ]_vars

C23_Witness ==
    /\ call.op = "record_observation"
    /\ call.result = ObservationDataTooLarge
    /\ call.lines_of_code <= MAX_LOC_PER_OBSERVATION
    /\ call.files_processed > MAX_FILES_PER_OBSERVATION
    /\ repo.observation_count = 1
    /\ repo.total_lines_of_code = 1

\* C24 (as claimed): a record_observation call rejected because the lifetime
\* soft cap would be exceeded, or because a checked addition overflows, leaves
\* the repository unmodified: observation_count, total_lines_of_code and
\* total_files_processed keep their prior values, however often it is repeated.
C24_Original ==
    [][ /\ call'.op = "record_observation"
        /\ call'.result \in {RepoObservationLimitReached, CounterOverflow}
        => /\ repo'.observation_count = repo.observation_count
           /\ repo'.total_lines_of_code = repo.total_lines_of_code
           /\ repo'.total_files_processed = repo.total_files_processed
           /\ repo' = repo ]_vars

\* C25 (as claimed): in every state reachable from registration through any
\* sequence of successful and rejected record_observation calls,
\* observation_count is at most the soft ceiling on observations.
C25_Original ==
    repo.observation_count <= SOFT_MAX_OBSERVATIONS_PER_REPO

\* C26: a repository partial update (apply_update) with every argument absent
\* succeeds and changes only updated_at: name, url, tags, is_active,
\* allow_observation, owner, all counters and created_at are unchanged.
C26_EmptyUpdateStampsOnly ==
    [][ /\ call'.op = "apply_update"
        /\ call'.maybe_name = None
        /\ call'.maybe_url = None
        /\ call'.maybe_tags = None
        /\ call'.maybe_is_active = None
        /\ call'.maybe_allow_observation = None
        => /\ call'.result = Ok
           /\ repo' = [repo EXCEPT !.updated_at = now] ]_vars

C26_Witness ==
    /\ call.op = "apply_update"
    /\ call.result = Ok
    /\ call.maybe_name = None
    /\ call.maybe_url = None
    /\ call.maybe_tags = None
    /\ call.maybe_is_active = None
    /\ call.maybe_allow_observation = None
    /\ repo.updated_at > repo.created_at
    /\ repo.module_count > 0

\* C27: a successful repository partial update sets each field whose argument
\* is present to the supplied value, leaves each field whose argument is
\* absent untouched, never changes owner, counters or created_at, and
\* re-stamps updated_at, for every combination of present and absent
\* arguments.
C27_UpdateAppliesPresentFields ==
    [][ call'.op = "apply_update" /\ call'.result = Ok =>
        /\ repo'.name = IF call'.maybe_name.some
                        THEN call'.maybe_name.val ELSE repo.name
        /\ repo'.url = IF call'.maybe_url.some
                       THEN call'.maybe_url.val ELSE repo.url
        /\ repo'.tags = IF call'.maybe_tags.some
                        THEN call'.maybe_tags.val ELSE repo.tags
        /\ repo'.is_active = IF call'.maybe_is_active.some
                             THEN call'.maybe_is_active.val ELSE repo.is_active
        /\ repo'.allow_observation =
              IF call'.maybe_allow_observation.some
              THEN call'.maybe_allow_observation.val ELSE repo.allow_observation
        /\ repo'.authority = repo.authority
        /\ repo'.repo_key = repo.repo_key
        /\ repo'.module_count = repo.module_count
        /\ repo'.observation_count = repo.observation_count
        /\ repo'.total_lines_of_code = repo.total_lines_of_code
        /\ repo'.total_files_processed = repo.total_files_processed
        /\ repo'.created_at = repo.created_at
        /\ repo'.schema_version = repo.schema_version
        /\ repo'.bump = repo.bump
        /\ repo'.updated_at = now ]_vars

C27_Witness ==
    /\ call.op = "apply_update"
    /\ call.result = Ok
    /\ call.maybe_name = Some(<<"a", "b">>)
    /\ call.maybe_url = None
    /\ call.maybe_tags = Some(<<"t">>)
    /\ call.maybe_is_active = Some(FALSE)
    /\ call.maybe_allow_observation = None
    /\ repo.name = <<"a", "b">>
    /\ repo.url = UsedRepo.url
    /\ repo.tags = <<"t">>
    /\ ~repo.is_active
    /\ repo.allow_observation
    /\ repo.observation_count = 1
    /\ repo.updated_at > repo.created_at

\* C28 (as claimed): a repository partial update in which any present field
\* fails validation (a valid new name together with an invalid url, or a valid
\* name and url together with over-long tags) fails and leaves the whole
\* repository unmodified, including the fields whose supplied values were
\* valid.
C28_Original ==
    [][ /\ call'.op = "apply_update"
        /\ \/ call'.maybe_name.some /\ validate_name(call'.maybe_name.val) # Ok
           \/ call'.maybe_url.some /\ validate_url(call'.maybe_url.val) # Ok
           \/ call'.maybe_tags.some /\ validate_tags(call'.maybe_tags.val) # Ok
        => /\ call'.result # Ok
           /\ repo' = repo ]_vars

\* C29: repository registration (Repo::init) fails without writing any field
\* when the name is empty or over the maximum length, the url is empty, over
\* the maximum length or lacks a scheme separator or a dot, or the tags are
\* over the maximum length; on success it yields is_active = true,
\* module_count = 0, observation_count = 0, total_lines_of_code = 0,
\* total_files_processed = 0 and created_at = updated_at.
C29_Registration ==
    [][ call'.op = "repo_init" =>
        IF \/ Len(call'.name) = 0
           \/ Len(call'.name) > MAX_NAME_LEN
           \/ Len(call'.url) = 0
           \/ Len(call'.url) > MAX_URL_LEN
           \/ ~Contains(call'.url, <<":", "/", "/">>)
           \/ ~Contains(call'.url, <<".">>)
           \/ Len(call'.tags) > MAX_REPO_TAGS_LEN
        THEN /\ call'.result # Ok
             /\ repo' = repo
        ELSE /\ call'.result = Ok
             /\ repo'.is_active
             /\ repo'.module_count = 0
             /\ repo'.observation_count = 0
             /\ repo'.total_lines_of_code = 0
             /\ repo'.total_files_processed = 0
             /\ repo'.created_at = now
             /\ repo'.updated_at = repo'.created_at
             /\ repo'.name = call'.name
             /\ repo'.url = call'.url
             /\ repo'.tags = call'.tags
             /\ repo'.authority = call'.authority
             /\ repo'.allow_observation = call'.allow_observation ]_vars

C29_Witness ==
    /\ call.op = "repo_init"
    /\ call.result = InvalidUrl
    /\ validate_name(call.name) = Ok
    /\ Contains(call.url, <<":", "/", "/">>)
    /\ ~Contains(call.url, <<".">>)
    /\ repo = ZeroRepo
    /\ now > 0

\* C30 (as claimed): lifecycle gating takes precedence over authorization in
\* every guarded mutator (set_metadata, update_fork_state): whenever
\* assert_writes_allowed would fail, the operation fails with the lifecycle
\* error and mutates nothing, both for the rightful owner/admin and for a
\* caller who is not the owner/admin.
C30_Original ==
    [][ /\ call'.op \in {"set_metadata", "update_fork_state"}
        /\ assert_writes_allowed(lc) # Ok
        => /\ call'.result = assert_writes_allowed(lc)
           /\ fork' = fork
           /\ metadata' = metadata ]_vars

\* C31 (as claimed): every guarded mutator checks in the order lifecycle
\* write-gate, then authorization, then activation check, then field
\* validation, and mutates only after all four passed: when several checks
\* would fail, the failure reported is that of the earliest one in this order,
\* both in set_metadata and in update_fork_state.
C31_Original ==
    [][ call'.op \in {"set_metadata", "update_fork_state"} =>
        LET args == call'.args
            gate == assert_writes_allowed(lc)
            authorization ==
                IF call'.op = "set_metadata"
                THEN IF call'.signer # config.admin THEN InvalidAdmin ELSE Ok
                ELSE IF call'.signer # fork.owner THEN InvalidForkOwner ELSE Ok
            activation == IF config.is_active THEN Ok ELSE ConfigInactive
            HasPrefix(str, prefixes) == \E q \in prefixes : StartsWith(str, q)
            fieldsValid ==
                IF call'.op = "set_metadata"
                THEN /\ args.description.some =>
                          Len(args.description.val) <= GlobalMetadata_MAX_DESCRIPTION_LEN
                     /\ args.website_url.some =>
                          /\ Len(args.website_url.val) <= GlobalMetadata_MAX_URL_LEN
                          /\ \/ args.website_url.val = <<>>
                             \/ HasPrefix(args.website_url.val, {Http, Https})
                ELSE /\ args.label.some =>
                          /\ args.label.val # <<>>
                          /\ Len(args.label.val) <= Fork_MAX_LABEL_LEN
                     /\ args.metadata_uri.some =>
                          /\ args.metadata_uri.val # <<>>
                          /\ Len(args.metadata_uri.val) <= Fork_MAX_METADATA_URI_LEN
                          /\ HasPrefix(args.metadata_uri.val, {Http, Https, Ipfs, Ar})
            validationKinds == {StringEmpty, StringTooLong, MetadataInvalid}
        IN  /\ IF gate # Ok THEN call'.result = gate
               ELSE IF authorization # Ok THEN call'.result = authorization
               ELSE IF activation # Ok THEN call'.result = activation
               ELSE IF ~fieldsValid THEN call'.result \in validationKinds
               ELSE call'.result = Ok
            /\ call'.result # Ok => fork' = fork /\ metadata' = metadata ]_vars

\* C32: over any sequence of repository operations after registration,
\* observation_count, total_lines_of_code and total_files_processed never
\* decrease, and module_count decreases only through a successful
\* decrement_module_count; no counter ever wraps around (each stays within
\* its width and moves by at most the amount of the call).
C32_CountersMonotonic ==
    [][ /\ repo'.observation_count >= repo.observation_count
        /\ repo'.observation_count <= repo.observation_count + 1
        /\ repo'.total_lines_of_code >= repo.total_lines_of_code
        /\ repo'.total_files_processed >= repo.total_files_processed
        /\ repo'.module_count < repo.module_count =>
              /\ call'.op = "decrement_module_count"
              /\ call'.result = Ok
              /\ repo'.module_count = repo.module_count - 1
        /\ repo'.module_count > repo.module_count =>
              /\ call'.op = "increment_module_count"
              /\ call'.result = Ok
              /\ repo'.module_count = repo.module_count + 1
        /\ repo'.module_count \in 0..U32_MAX
        /\ repo'.observation_count \in 0..U64_MAX
        /\ repo'.total_lines_of_code \in 0..U64_MAX
        /\ repo'.total_files_processed \in 0..U64_MAX ]_vars

C32_Witness ==
    /\ call.op = "record_observation"
    /\ call.result = CounterOverflow
    /\ repo.observation_count = U64_MAX
    /\ repo.total_lines_of_code > 0
    /\ repo.module_count > 0

\* C33 (as claimed): when the stored phase value is not one of the six
\* recognized ordinals, every lifecycle operation that reads or replaces the
\* phase (set_phase, start_migration, complete_migration,
\* assert_writes_allowed, is_effectively_read_only) aborts with a failure kind
\* distinct from the one a blocked write gets, and leaves the stored state
\* unchanged rather than overwriting the unrecognized value.
C33_Original ==
    [][ /\ from_u8(lc.phase) = NoPhase
        /\ call'.op \in {"set_phase", "start_migration", "complete_migration",
                          "assert_writes_allowed", "is_effectively_read_only"}
        => LET blockedKind ==
                   assert_writes_allowed(
                       [lc EXCEPT !.phase = as_u8("Operational"),
                                  !.global_freeze = TRUE])
           IN  /\ call'.result # Ok
               /\ call'.result # blockedKind
               /\ lc' = lc ]_vars


C35_Original ==
    [][ /\ call'.op = "set_metadata"
        /\ call'.result = Ok
        /\ metadata.bump = MetadataBump
        => /\ metadata'.created_at = metadata.created_at
           /\ ~call'.args.description.some =>
                  metadata'.description = metadata.description
           /\ ~call'.args.website_url.some =>
                  metadata'.website_url = metadata.website_url
           /\ ~call'.args.tags.some => metadata'.tags = metadata.tags
           /\ ~call'.args.docs_url.some => metadata'.docs_url = metadata.docs_url
           /\ ~call'.args.dashboard_url.some =>
                  metadata'.dashboard_url = metadata.dashboard_url
           /\ ~call'.args.icon_uri.some => metadata'.icon_uri = metadata.icon_uri
           /\ ~call'.args.extra_json.some =>
                  metadata'.extra_json = metadata.extra_json ]_vars

\* C36: in every lifecycle state reachable from init through set_phase,
\* set_global_freeze, require_migration, start_migration and
\* complete_migration, a migration in progress is a required one.
C36_InProgressImpliesRequired ==
    lc.migration_in_progress => lc.migration_required

\* A migration in progress, with the phase moved and the requirement
\* requested again since it started.
C36_Witness ==
    /\ lc.migration_in_progress
    /\ lc.migration_required
    /\ hist.start_open
    /\ from_u8(lc.phase) # "Migration"
    /\ call.op = "require_migration"

\* C37: once require_migration has set migration_required, the flag stays
\* true across set_phase, set_global_freeze, require_migration and
\* start_migration; only a successful complete_migration clears it, and
\* complete_migration succeeds only after a successful start_migration that
\* followed the setting of the flag.
C37_RequiredUntilCompleted ==
    [][ /\ lc.migration_required /\ ~lc'.migration_required
           => /\ call'.op = "complete_migration"
              /\ call'.result = Ok
        /\ call'.op = "complete_migration" /\ call'.result = Ok
           => /\ hist.start_open
              /\ hist.require_called
              /\ lc.migration_required
              /\ ~lc'.migration_required
        /\ /\ call'.op \in {"set_phase", "set_global_freeze",
                            "require_migration", "start_migration"}
           /\ lc.migration_required
           => lc'.migration_required ]_vars

\* The requirement cleared by complete_migration after a freeze and a
\* change of phase happened while it was set.
C37_Witness ==
    /\ call.op = "complete_migration"
    /\ call.result = Ok
    /\ ~lc.migration_required
    /\ hist.require_called
    /\ hist.freeze_set
    /\ lc.global_freeze

\* C38 (as claimed): from a successful start_migration until the next
\* successful complete_migration, that is while migration_in_progress is
\* true, assert_writes_allowed fails in every state, whatever set_phase,
\* set_global_freeze and require_migration calls are interleaved.
C38_Original ==
    hist.start_open \/ lc.migration_in_progress
        => assert_writes_allowed(lc) # Ok

\* C39: the lifecycle state machine has no dead state.  In every state
\* reachable from init the stored phase is a recognized ordinal (0..5); the
\* lifecycle operations are never blocked by the write guard (set_phase,
\* set_global_freeze and require_migration succeed, start_migration and
\* complete_migration depend on the migration flags only); and some sequence
\* of at most three successful operations among set_global_freeze(false),
\* start_migration, complete_migration and set_phase leads to a state where
\* assert_writes_allowed succeeds.
C39_NoDeadState ==
    LET Step(st) ==
            LET results ==
                    {set_global_freeze(st, FALSE, now), start_migration(st, now)}
                    \cup {complete_migration(st, p, now) : p \in Phases}
                    \cup {set_phase(st, p, now) : p \in Phases}
            IN  {r.st : r \in {x \in results : x.err = Ok}}
        within1 == {lc} \cup Step(lc)
        within2 == within1 \cup UNION {Step(st) : st \in within1}
        within3 == within2 \cup UNION {Step(st) : st \in within2}
    IN  /\ lc.phase \in 0..5
        /\ \A p \in Phases : set_phase(lc, p, now).err = Ok
        /\ \A b \in BOOLEAN : set_global_freeze(lc, b, now).err = Ok
        /\ require_migration(lc, now).err = Ok
        /\ start_migration(lc, now).err = Ok
               <=> lc.migration_required /\ ~lc.migration_in_progress
        /\ \A p \in Phases :
               complete_migration(lc, p, now).err = Ok <=> lc.migration_in_progress
        /\ \E st \in within3 : assert_writes_allowed(st) = Ok

\* A state that needs all three operations: frozen, in a blocking phase,
\* with a migration required and not started, so that no sequence of two
\* operations opens the guard.
C39_Witness ==
    LET Step(st) ==
            LET results ==
                    {set_global_freeze(st, FALSE, now), start_migration(st, now)}
                    \cup {complete_migration(st, p, now) : p \in Phases}
                    \cup {set_phase(st, p, now) : p \in Phases}
            IN  {r.st : r \in {x \in results : x.err = Ok}}
        within1 == {lc} \cup Step(lc)
        within2 == within1 \cup UNION {Step(st) : st \in within1}
    IN  /\ lc.global_freeze
        /\ lc.migration_required
        /\ ~lc.migration_in_progress
        /\ from_u8(lc.phase) = "Sunset"
        /\ \A st \in within2 : assert_writes_allowed(st) # Ok

\* C40: after clear_roles the entry is disabled: its roles are empty and stay
\* empty until the next successful grant_roles or set_roles with a non-zero
\* mask, and as long as they are empty assert_allowed_for_resource fails for
\* every signer, every required_roles mask and every resource; whatever the
\* stored roles, a call with required_roles = 0 never succeeds.
\* (The check is called with every signer, mask and resource in every state.)
C40_ClearedEntryDisabled ==
    [][ /\ call'.op = "clear_roles" =>
               /\ call'.result = Ok
               /\ auth'.roles = {}
        /\ AuthorityExists /\ auth.roles = {} /\ auth'.roles # {} =>
               /\ call'.op \in {"grant_roles", "set_roles"}
               /\ call'.result = Ok
               /\ call'.roles # {}
        /\ /\ call'.op = "assert_allowed_for_resource"
           /\ auth.roles = {} \/ call'.roles = {}
           => call'.result # Ok ]_vars

\* The entry's own authority, with a global scope, refused right after
\* clear_roles whatever role it asks for.
C40_Witness ==
    /\ call.op = "clear_roles"
    /\ call.result = Ok
    /\ auth.roles = {}
    /\ auth.is_global
    /\ auth.authority \in 1..MaxKey
    /\ assert_allowed_for_resource(auth, auth.authority, ANY, 1)
           = AuthorityRoleNotAllowed

====
